---- MODULE Spec2Model ----
(***************************************************************************)
(* Verification model of the hybrid retrieval-fusion engine                *)
(* (core/retrieval/answer.py), the intent router                           *)
(* (core/agents/router_agent.py, api/server.py) and the bounded tool-      *)
(* calling loop (core/agents/llm_agent.py).                                *)
(*                                                                         *)
(* Scores: the code accumulates 1.0/(RRF_K + rank) in floating point.      *)
(* Here a score is the exact rational, stored as an integer multiple of    *)
(* 1/Scale, where Scale is the product of (RRF_K + p) for every rank p the *)
(* model can produce.  A hit receives at most two contributions, float     *)
(* addition of two terms is commutative, and distinct sums differ by far   *)
(* more than the rounding error, so equality and order of the rationals    *)
(* are equality and order of the floats.                                   *)
(***************************************************************************)
EXTENDS Integers, Sequences, FiniteSets, TLC

VARIABLES
    \* ---- retrieval (answer.py) ----
    chroma_pairs,   \* the semantic engine's raw result list of the last query
    bm25_rows,      \* the keyword engine's raw result list of the last query
    before_dt,      \* cutoff date, NoCutoff when none was supplied
    mtime,          \* file -> modification time, NoMtime when unreadable
    hits,           \* list returned by the last retrieve_hybrid
    hpc,            \* position of the stand-alone retrieve_hybrid call
    \* ---- run_agent (llm_agent.py) ----
    apc,                \* "idle", "loop" (between turns) or "done" (returned)
    max_steps,          \* the step budget of this run
    step,               \* loop iterations entered so far
    transcript,         \* list of (role, content)
    last_context_block, \* context of the most recent hybrid_retrieve, <<>> if none
    last_chosen_hits,   \* its chosen hits, <<>> if none
    last_bm25_rows,     \* rows of the most recent bm25_search, <<>> if none
    llm_calls,          \* number of llm.invoke calls of the turn model
    writer_prompts,     \* context blocks handed to call_llm_writer, in order
    last_turn,          \* how the latest turn ended
    a_result,           \* the value run_agent returned
    \* ---- route_and_run (router_agent.py) and POST /route (server.py) ----
    entry,          \* "cli" for route_and_run, "http" for route_endpoint
    question,       \* the question, a list of words
    k_ctx,          \* how many fused chunks go to the generative model
    rpc,            \* "start", "fused" (fast path found nothing) or "done"
    calls,          \* log of engine calls: bm25_search and retrieve_hybrid
    r_rows,         \* keyword rows a file list was built from, after the filter
    r_prompts,      \* context blocks handed to call_llm, in order
    r_output,       \* the response produced
    \* ---- POST /route and POST /agent (server.py) ----
    req,            \* the HTTP request as received: path, q, before, k
    epc,            \* "idle", "received", "route", "agent", "rejected", "done"
    http_error,     \* status of the HTTPException raised, NoError if none
    \* ---- assign_chunk_ids (index_bm25.py, index_chroma.py) ----
    chunks,         \* the ordered chunk list handed to the indexers
    ipc,            \* "idle", "split", "bm25_done", "both_done"
    ids_bm25,       \* ids the keyword indexer assigned, by position
    ids_chroma,     \* ids the vector indexer assigned, by position
    \* ---- search (bm25_db.py) ----
    s_query,        \* the query handed to search
    s_store,        \* how the keyword store reacts to the statements
    spc,            \* "idle", "call", "returned", "raised"
    s_path,         \* statements executed by this call, in order
    s_match,        \* the text bound to MATCH, <<>> when MATCH was not run
    s_rows,         \* the rows search returned
    \* ---- the Observation entry of one turn (llm_agent.py) ----
    o_in,           \* how the turn ended and the length of what it reports
    opc,            \* "idle", "turn", "appended"
    o_len,          \* length of the tool entry appended to the transcript
    \* ---- the world around retrieve_hybrid and route_and_run ----
    open_error,     \* store whose open failed, "none" when none did
    fts_gone,       \* chunk ids deleted from chunks_fts since the search
    \* ---- the keyword store (bm25_db.py, manage_indexes.py) ----
    db_meta,        \* rows of chunk_meta
    db_fts,         \* rows of chunks_fts, in insertion order
    db_op           \* the last operation on the store and what it returned

hvars == <<chroma_pairs, bm25_rows, before_dt, mtime, hits, hpc>>

avars == <<apc, max_steps, step, transcript, last_context_block,
           last_chosen_hits, last_bm25_rows, llm_calls, writer_prompts,
           last_turn, a_result>>

rvars == <<entry, question, k_ctx, rpc, calls, r_rows, r_prompts, r_output>>

evars == <<req, epc, http_error>>

ivars == <<chunks, ipc, ids_bm25, ids_chroma>>

svars == <<s_query, s_store, spc, s_path, s_match, s_rows>>

ovars == <<o_in, opc, o_len>>

wvars == <<open_error, fts_gone>>

dvars == <<db_meta, db_fts, db_op>>

\* the components outside retrieval, agent loop and router
xvars == <<evars, ivars, svars, ovars, wvars, dvars>>

vars == <<hvars, avars, rvars, xvars>>

----------------------------------------------------------------------------
\* Bounds of the model

MaxDepth == 3       \* longest raw result list an engine returns
MaxTime == 2        \* modification times and cutoffs range over 1..MaxTime

----------------------------------------------------------------------------
\* Program constants and the values standing for Python's None

RRF_K == 60
NoRank == 0         \* Hit.chroma_rank / Hit.bm25_rank = None
NoMtime == 0        \* file_mtime(...) = None
NoCutoff == 0       \* before = None

----------------------------------------------------------------------------
\* The indexed corpus: chunk ids are "source:page:index"

Files == {"a", "b"}
ChunkIds == {"a:2:0", "a:2:1", "b:1:0"}

SourceOf(id) == IF id \in {"a:2:0", "a:2:1"} THEN "a" ELSE "b"
PageOf(id) == IF id \in {"a:2:0", "a:2:1"} THEN 2 ELSE 1

\* Full text of a chunk is named by the chunk it belongs to; "" is no text.
TextOf(id) == id

\* A (Document, distance) pair of the semantic engine, reduced to what
\* retrieve_hybrid reads: metadata id/source/page and page_content.
ChromaDoc(id) == [id |-> id, source |-> SourceOf(id), page |-> PageOf(id),
                  text |-> TextOf(id)]

\* A document stored without an "id" in its metadata: metadata.get("id", "")
NoIdDoc == [id |-> "", source |-> "a", page |-> 0, text |-> "a:2:0"]

ChromaDocs == {ChromaDoc(id) : id \in ChunkIds} \cup {NoIdDoc}

\* A row of bm25_db.search: chunk_id, source, page (snippet = chunk's text)
Bm25Row(id) == [chunk_id |-> id, source |-> SourceOf(id), page |-> PageOf(id),
                snippet |-> TextOf(id)]

\* a row as bm25_db.search returns it on the ranked path (rank = its bm25
\* order) and on the substring scan (rank = None)
RankedRow(id, rank) ==
    [chunk_id |-> id, source |-> SourceOf(id), page |-> PageOf(id),
     snippet |-> TextOf(id), rank |-> rank]

UnrankedRow(id) == RankedRow(id, NoRank)

Bm25RowSet == {Bm25Row(id) : id \in ChunkIds}

\* Result lists: each stored row at most once, at most n rows
ResultLists(S, n) ==
    UNION {{s \in [1..k -> S] : \A i, j \in 1..k : i # j => s[i] # s[j]}
           : k \in 0..n}

ChromaResults == ResultLists(ChromaDocs, MaxDepth)
Bm25Results == ResultLists(Bm25RowSet, MaxDepth)

Mtimes == [Files -> {NoMtime} \cup (1..MaxTime)]
Cutoffs == {NoCutoff} \cup (1..MaxTime)

----------------------------------------------------------------------------
\* answer.py: temporal filter

file_mtime(source_path, mt) ==
    IF source_path \in DOMAIN mt THEN mt[source_path] ELSE NoMtime

passes_before_filter_inclusive(source_path, before, mt) ==
    IF before = NoCutoff THEN TRUE
    ELSE /\ file_mtime(source_path, mt) # NoMtime
         /\ file_mtime(source_path, mt) <= before

passes_before_filter(source_path, before, mt) ==
    IF before = NoCutoff THEN TRUE
    ELSE /\ file_mtime(source_path, mt) # NoMtime
         /\ file_mtime(source_path, mt) < before

----------------------------------------------------------------------------
\* answer.py: reciprocal rank fusion

RECURSIVE ScaleTo(_)
ScaleTo(n) == IF n = 0 THEN 1 ELSE (RRF_K + n) * ScaleTo(n - 1)

\* common denominator of every score the model can produce
Scale == ScaleTo(MaxDepth)

\* 1.0 / (RRF_K + rank_1based), in units of 1/Scale
Reciprocal(rank_1based) == Scale \div (RRF_K + rank_1based)

\* position of key in the insertion-ordered dict, 0 when absent
KeyIndex(score_map, key) ==
    LET S == {i \in 1..Len(score_map) : score_map[i].chunk_id = key}
    IN IF S = {} THEN 0 ELSE CHOOSE i \in S : TRUE

NewHit(key, meta) ==
    [chunk_id |-> key, source |-> meta.source, page |-> meta.page,
     text |-> meta.text, chroma_rank |-> NoRank, bm25_rank |-> NoRank,
     rrf_score |-> 0]

\* a fusion step that never merges: every contribution becomes its own hit
rrf_add_no_merge(score_map, key, rank_1based, engine, meta) ==
    Append(score_map,
           [NewHit(key, meta) EXCEPT
               !.rrf_score = Reciprocal(rank_1based),
               !.chroma_rank = IF engine = "chroma" THEN rank_1based ELSE NoRank,
               !.bm25_rank = IF engine = "bm25" THEN rank_1based ELSE NoRank])

\* a fusion step that assigns the score where the code accumulates it
rrf_add_overwrite(score_map, key, rank_1based, engine, meta) ==
    LET m0 == IF KeyIndex(score_map, key) = 0
              THEN Append(score_map, NewHit(key, meta)) ELSE score_map
        i == KeyIndex(m0, key)
        h1 == [m0[i] EXCEPT !.rrf_score = Reciprocal(rank_1based)]
        h2 == IF engine = "chroma" THEN [h1 EXCEPT !.chroma_rank = rank_1based]
              ELSE [h1 EXCEPT !.bm25_rank = rank_1based]
    IN [m0 EXCEPT ![i] = h2]

\* rrf_add: create the hit on first sight, add 1/(K + rank) to its score and
\* record the rank under the contributing engine
rrf_add(score_map, key, rank_1based, engine, meta) ==
    LET add == Reciprocal(rank_1based)
        m0 == IF KeyIndex(score_map, key) = 0
              THEN Append(score_map, NewHit(key, meta)) ELSE score_map
        i == KeyIndex(m0, key)
        h1 == [m0[i] EXCEPT !.rrf_score = @ + add]
        h2 == IF engine = "chroma" THEN [h1 EXCEPT !.chroma_rank = rank_1based]
              ELSE IF engine = "bm25" THEN [h1 EXCEPT !.bm25_rank = rank_1based]
              ELSE h1
    IN [m0 EXCEPT ![i] = h2]

\* chroma_text_by_id: every chroma row is recorded, filtered or not; a later
\* row with the same id overwrites an earlier one
ChromaTextById(pairs) ==
    [id \in {pairs[i].id : i \in 1..Len(pairs)} |->
        LET last == CHOOSE i \in 1..Len(pairs) :
                        /\ pairs[i].id = id
                        /\ \A j \in 1..Len(pairs) : pairs[j].id = id => j <= i
        IN pairs[last].text]

\* the same list with the rank taken after the filter instead of before it
ChromaMetaListRankAfterFilter(pairs, before, mt) ==
    LET all == [i \in 1..Len(pairs) |->
                  [chunk_id |-> pairs[i].id,
                   meta |-> [source |-> pairs[i].source, page |-> pairs[i].page,
                             text |-> pairs[i].text, rank |-> i]]]
        kept == SelectSeq(all, LAMBDA e : e.chunk_id # ""
                       /\ passes_before_filter(e.meta.source, before, mt))
    IN [i \in 1..Len(kept) |-> [kept[i] EXCEPT !.meta.rank = i]]

\* chroma_meta_list: rows with an id that pass the filter, rank = raw position
ChromaMetaList(pairs, before, mt) ==
    LET all == [i \in 1..Len(pairs) |->
                  [chunk_id |-> pairs[i].id,
                   meta |-> [source |-> pairs[i].source, page |-> pairs[i].page,
                             text |-> pairs[i].text, rank |-> i]]]
    IN SelectSeq(all, LAMBDA e : e.chunk_id # ""
                       /\ passes_before_filter(e.meta.source, before, mt))

\* bm25_meta_list before the batch lookup: text reused from chroma or ""
Bm25MetaList(rows, pairs, before, mt) ==
    LET byId == ChromaTextById(pairs)
        all == [i \in 1..Len(rows) |->
                  [chunk_id |-> rows[i].chunk_id,
                   meta |-> [source |-> rows[i].source, page |-> rows[i].page,
                             text |-> IF rows[i].chunk_id \in DOMAIN byId
                                      THEN byId[rows[i].chunk_id] ELSE "",
                             rank |-> i]]]
    IN SelectSeq(all, LAMBDA e : e.chunk_id # ""
                       /\ passes_before_filter(e.meta.source, before, mt))

\* bm25_only_ids: kept keyword rows whose id the semantic engine did not return
Bm25OnlyIds(rows, pairs, before, mt) ==
    LET kept == Bm25MetaList(rows, pairs, before, mt)
    IN {kept[i].chunk_id : i \in {j \in 1..Len(kept) :
            kept[j].chunk_id \notin DOMAIN ChromaTextById(pairs)}}

\* SELECT chunk_id, text FROM chunks_fts WHERE chunk_id IN (...)
\* a lookup answered from the rows as they were when the search ran
FetchTextAsSearched(ids) == [id \in ids \cap ChunkIds |-> TextOf(id)]

\* the statement sees the rows present when it runs: a row another process
\* deleted since the search is not among them
FetchText(ids) == [id \in (ids \cap ChunkIds) \ fts_gone |-> TextOf(id)]

\* bm25_meta_list after the single batch lookup filled the empty texts
Bm25MetaFilled(rows, pairs, before, mt) ==
    LET kept == Bm25MetaList(rows, pairs, before, mt)
        only == Bm25OnlyIds(rows, pairs, before, mt)
        text_map == FetchText(only)
    IN IF only = {} THEN kept
       ELSE [i \in 1..Len(kept) |->
               IF kept[i].meta.text = ""
               THEN [kept[i] EXCEPT !.meta.text =
                        IF kept[i].chunk_id \in DOMAIN text_map
                        THEN text_map[kept[i].chunk_id] ELSE ""]
               ELSE kept[i]]

RECURSIVE FuseList(_, _, _)
FuseList(score_map, metas, engine) ==
    IF metas = <<>> THEN score_map
    ELSE FuseList(rrf_add(score_map, Head(metas).chunk_id, Head(metas).meta.rank,
                          engine, Head(metas).meta),
                  Tail(metas), engine)

\* an unstable descending sort: an equal-score element is overtaken
RECURSIVE InsertDescUnstable(_, _)
InsertDescUnstable(sorted, h) ==
    IF sorted = <<>> THEN <<h>>
    ELSE IF Head(sorted).rrf_score > h.rrf_score
         THEN <<Head(sorted)>> \o InsertDescUnstable(Tail(sorted), h)
         ELSE <<h>> \o sorted

\* insertion of h into a list already sorted by descending score, after every
\* element whose score is >= h's: sorted(..., reverse=True) is stable
RECURSIVE InsertDesc(_, _)
InsertDesc(sorted, h) ==
    IF sorted = <<>> THEN <<h>>
    ELSE IF Head(sorted).rrf_score >= h.rrf_score
         THEN <<Head(sorted)>> \o InsertDesc(Tail(sorted), h)
         ELSE <<h>> \o sorted

RECURSIVE SortedByScoreDesc(_)
SortedByScoreDesc(s) ==
    IF s = <<>> THEN <<>>
    ELSE InsertDesc(SortedByScoreDesc(SubSeq(s, 1, Len(s) - 1)), s[Len(s)])

\* a score map that outlives the call: the next call starts from the hits
\* the previous one left
ScoreMapOfLastCall == hits

\* fused = {}: every call starts from an empty score map
FreshScoreMap == <<>>

Fused(pairs, rows, before, mt) ==
    FuseList(FuseList(FreshScoreMap, ChromaMetaList(pairs, before, mt), "chroma"),
             Bm25MetaFilled(rows, pairs, before, mt), "bm25")

retrieve_hybrid(pairs, rows, before, mt) ==
    SortedByScoreDesc(Fused(pairs, rows, before, mt))

----------------------------------------------------------------------------
\* answer.py: context assembly

MAX_CHUNK_CHARS == 1200

Min(a, b) == IF a <= b THEN a ELSE b
Max(a, b) == IF a >= b THEN a ELSE b

\* number of characters of a chunk's full text
TextLen(text) ==
    IF text = "" THEN 0 ELSE IF text = "a:2:1" THEN 1500 ELSE 800

\* Python's s[:limit]: a negative limit counts from the end of the list
PyPrefix(s, limit) ==
    IF limit >= 0 THEN SubSeq(s, 1, Min(limit, Len(s)))
    ELSE SubSeq(s, 1, Max(Len(s) + limit, 0))

\* one rendered entry "[i] source: .. | page: .. | chunk_id: ..\n<text>\n"
ContextEntry(i, hit) ==
    [index |-> i, source |-> hit.source, page |-> hit.page,
     chunk_id |-> hit.chunk_id, text |-> hit.text,
     chars |-> Min(TextLen(hit.text), MAX_CHUNK_CHARS)]

\* build_context_block(hits, limit) -> (context text, chosen); the context
\* text is the list of its rendered entries, <<>> being the empty string
build_context_block(hs, limit) ==
    LET chosen == PyPrefix(hs, limit)
    IN [context_block |-> [i \in 1..Len(chosen) |-> ContextEntry(i, chosen[i])],
        chosen |-> chosen]

----------------------------------------------------------------------------
\* llm_agent.py: the tool-calling loop

MaxSteps == 3       \* largest step budget a run is started with

TOOLS == {"bm25_search", "chroma_search", "hybrid_retrieve", "final_answer"}

\* what the tools can return in the runs explored
AgentChroma == ResultLists({ChromaDoc("a:2:0")}, 1)
AgentBm25 == ResultLists({Bm25Row("a:2:0"), Bm25Row("b:1:0")}, 2)
KCtxArgs == {0, 1, 6}

\* tool_hybrid(query, ck, bk, k_ctx): retrieve_hybrid without cutoff, then
\* build_context_block(hits, limit = k_ctx)
tool_hybrid(pairs, rows, k_ctx_arg) ==
    LET hs == retrieve_hybrid(pairs, rows, NoCutoff, [f \in Files |-> NoMtime])
        built == build_context_block(hs, k_ctx_arg)
    IN [context_block |-> built.context_block, hits |-> built.chosen,
        num_hits |-> Len(hs)]

HybridOutcomes ==
    {tool_hybrid(c, b, k) : c \in AgentChroma, b \in AgentBm25, k \in KCtxArgs}

\* tool_bm25(query, k) -> {"rows": rows}: the rows of search, ranked or, when
\* search fell back to the substring scan, all with rank None
Bm25Outcomes ==
    {<<>>,
     <<RankedRow("a:2:0", 1)>>,
     <<RankedRow("a:2:0", 1), RankedRow("a:2:1", 2)>>,
     <<UnrankedRow("b:1:0")>>,
     <<UnrankedRow("a:2:0"), UnrankedRow("a:2:1")>>}

NoResult == [kind |-> "none"]

Entry(role, content) == [role |-> role, content |-> content]

\* for step in range(1, max_steps + 1): another iteration is entered
LoopContinuesOffByOne(done, budget) == done <= budget
LoopContinues(done, budget) == done < budget

AgentIdle ==
    /\ apc = "idle"
    /\ max_steps = 0
    /\ step = 0
    /\ transcript = <<>>
    /\ last_context_block = <<>>
    /\ last_chosen_hits = <<>>
    /\ last_bm25_rows = <<>>
    /\ llm_calls = 0
    /\ writer_prompts = <<>>
    /\ last_turn = "none"
    /\ a_result = NoResult

\* run_agent(question, max_steps): lines 154-167, and the return after a loop
\* of zero iterations
StartRun(s) ==
    /\ max_steps' = s
    /\ apc' = IF LoopContinues(0, s) THEN "loop" ELSE "done"
    /\ a_result' = IF LoopContinues(0, s) THEN NoResult
                   ELSE [kind |-> "ran_out_of_steps"]
    /\ transcript' = <<Entry("system", "SYSTEM_PROMPT"), Entry("user", "question")>>
    /\ step' = 0
    /\ last_context_block' = <<>>
    /\ last_chosen_hits' = <<>>
    /\ last_bm25_rows' = <<>>
    /\ llm_calls' = 0
    /\ writer_prompts' = <<>>
    /\ last_turn' = "none"

\* a run started from the command line with any budget
RunAgent ==
    /\ apc = "idle"
    /\ \E s \in 0..MaxSteps : StartRun(s)
    /\ UNCHANGED <<hvars, rvars, xvars>>

\* lines 169-177: the loop head asks the turn model once and appends its reply
AskModel ==
    /\ apc = "loop"
    /\ LoopContinues(step, max_steps)
    /\ step' = step + 1
    /\ llm_calls' = llm_calls + 1
    /\ UNCHANGED <<max_steps, hvars, rvars, xvars>>

\* `continue` or the end of the loop body: next iteration, or line 276
Continue ==
    /\ apc' = IF LoopContinues(step + 1, max_steps) THEN "loop" ELSE "done"
    /\ a_result' = IF LoopContinues(step + 1, max_steps) THEN NoResult
                   ELSE [kind |-> "ran_out_of_steps"]

\* lines 269-273: the Observation entry holds the serialized tool result
ResultEntry(tool, result) ==
    [role |-> "tool", content |-> "Observation:result", tool |-> tool,
     result |-> result]

\* lines 198-207: rows are grouped by source and max(hs, key = rank) picks a
\* row of each group; max compares the keys of a group of two or more rows,
\* and None is not comparable
FileListRaises(rows) ==
    \E i, j \in 1..Len(rows) :
        /\ i # j
        /\ rows[i].source = rows[j].source
        /\ (rows[i].rank = NoRank \/ rows[j].rank = NoRank)

\* lines 179-217: the response to a FinalAnswer reply
FinalResponse ==
    IF last_chosen_hits # <<>>
    THEN [kind |-> "final_with_sources", text |-> "final_text",
          sources |-> last_chosen_hits]
    ELSE IF last_bm25_rows # <<>>
    THEN IF FileListRaises(last_bm25_rows)
         THEN [kind |-> "raised"]
         ELSE [kind |-> "final_with_files", rows |-> last_bm25_rows]
    ELSE [kind |-> "final_text", text |-> "final_text"]

\* lines 179-217: the reply matches FINAL_RE (whether or not it also holds an
\* Action/Args pair)
TurnFinalAnswer ==
    /\ \E also_action \in BOOLEAN :
          /\ AskModel
          /\ transcript' = Append(transcript,
                Entry("assistant", IF also_action THEN "final+action" ELSE "final"))
    /\ apc' = "done"
    /\ a_result' = FinalResponse
    /\ last_turn' = "final"
    /\ UNCHANGED <<last_context_block, last_chosen_hits, last_bm25_rows,
                   writer_prompts>>

\* lines 220-240: neither pattern matches
TurnNoAction ==
    /\ AskModel
    /\ last_turn' = "no_action"
    /\ UNCHANGED <<last_context_block, last_chosen_hits, last_bm25_rows>>
    /\ IF step + 1 = max_steps
       THEN /\ transcript' = Append(transcript, Entry("assistant", "no_action"))
            /\ apc' = "done"
            /\ IF last_context_block # <<>>
               THEN /\ writer_prompts' = Append(writer_prompts, last_context_block)
                    /\ a_result' = [kind |-> "fallback_answer",
                                    context |-> last_context_block,
                                    sources |-> last_chosen_hits]
               ELSE /\ writer_prompts' = writer_prompts
                    /\ a_result' = [kind |-> "could_not_decide"]
       ELSE /\ transcript' = transcript \o
                   <<Entry("assistant", "no_action"),
                     Entry("tool", "Observation:invalid or missing Action/Args")>>
            /\ writer_prompts' = writer_prompts
            /\ Continue

\* lines 242-247, with the exception escaping run_agent
TurnArgsNotJsonPropagates ==
    /\ AskModel
    /\ transcript' = Append(transcript, Entry("assistant", "action:bad_json"))
    /\ last_turn' = "bad_json"
    /\ apc' = "done"
    /\ a_result' = [kind |-> "raised"]
    /\ UNCHANGED <<last_context_block, last_chosen_hits, last_bm25_rows,
                   writer_prompts>>

\* lines 242-247: ACTION_RE matches but json.loads rejects the Args
TurnArgsNotJson ==
    /\ AskModel
    /\ transcript' = transcript \o
          <<Entry("assistant", "action:bad_json"),
            Entry("tool", "Observation:Args JSON could not be parsed")>>
    /\ last_turn' = "bad_json"
    /\ UNCHANGED <<last_context_block, last_chosen_hits, last_bm25_rows,
                   writer_prompts>>
    /\ Continue

\* lines 249-252: the tool name is not a key of TOOLS
TurnUnknownTool ==
    /\ AskModel
    /\ transcript' = transcript \o
          <<Entry("assistant", "action:unknown_tool"),
            Entry("tool", "Observation:unknown tool")>>
    /\ last_turn' = "unknown_tool"
    /\ UNCHANGED <<last_context_block, last_chosen_hits, last_bm25_rows,
                   writer_prompts>>
    /\ Continue

\* a failing tool call that also drops what earlier retrievals left
TurnToolRaisedForgets ==
    /\ \E tool \in TOOLS :
          /\ AskModel
          /\ transcript' = transcript \o
                <<Entry("assistant", tool),
                  Entry("tool", "Observation:tool errored")>>
    /\ last_turn' = "tool_error"
    /\ last_context_block' = <<>>
    /\ last_chosen_hits' = <<>>
    /\ last_bm25_rows' = <<>>
    /\ UNCHANGED writer_prompts
    /\ Continue

\* lines 254-260: tool_fn(**args) raises an Exception
TurnToolRaised ==
    /\ \E tool \in TOOLS :
          /\ AskModel
          /\ transcript' = transcript \o
                <<Entry("assistant", tool),
                  Entry("tool", "Observation:tool errored")>>
    /\ last_turn' = "tool_error"
    /\ UNCHANGED <<last_context_block, last_chosen_hits, last_bm25_rows,
                   writer_prompts>>
    /\ Continue

\* lines 254-273: the tool returns; its result is remembered and observed
TurnToolReturned ==
    /\ \E tool \in TOOLS :
          /\ AskModel
          /\ \/ /\ tool = "hybrid_retrieve"
                /\ \E r \in HybridOutcomes :
                      /\ last_context_block' = r.context_block
                      /\ last_chosen_hits' = r.hits
                      /\ transcript' = transcript \o
                            <<Entry("assistant", tool), ResultEntry(tool, r)>>
                /\ UNCHANGED <<last_bm25_rows, writer_prompts>>
             \/ /\ tool = "bm25_search"
                /\ \E rows \in Bm25Outcomes :
                      /\ last_bm25_rows' = rows
                      /\ transcript' = transcript \o
                            <<Entry("assistant", tool),
                              ResultEntry(tool, [rows |-> rows])>>
                /\ UNCHANGED <<last_context_block, last_chosen_hits, writer_prompts>>
             \/ /\ tool = "chroma_search"
                /\ transcript' = transcript \o
                      <<Entry("assistant", tool),
                        ResultEntry(tool, [rows |-> "rows"])>>
                /\ UNCHANGED <<last_context_block, last_chosen_hits,
                               last_bm25_rows, writer_prompts>>
             \/ /\ tool = "final_answer"
                /\ \E ctx \in {last_context_block, <<>>} :
                      writer_prompts' = Append(writer_prompts, ctx)
                /\ transcript' = transcript \o
                      <<Entry("assistant", tool),
                        ResultEntry(tool, [answer |-> "answer"])>>
                /\ UNCHANGED <<last_context_block, last_chosen_hits, last_bm25_rows>>
    /\ last_turn' = "tool_ok"
    /\ Continue

\* line 256: tool_fn(**args) is called without a timeout; a tool that blocks
\* on the network or the disk never returns and the turn never ends
TurnToolBlocked ==
    /\ \E tool \in TOOLS :
          /\ AskModel
          /\ transcript' = Append(transcript, Entry("assistant", tool))
    /\ apc' = "in_tool"
    /\ a_result' = NoResult
    /\ last_turn' = "blocked"
    /\ UNCHANGED <<last_context_block, last_chosen_hits, last_bm25_rows,
                   writer_prompts>>

AgentNext ==
    \/ RunAgent
    \/ TurnFinalAnswer
    \/ TurnNoAction
    \/ TurnArgsNotJson
    \/ TurnUnknownTool
    \/ TurnToolRaised
    \/ TurnToolReturned
    \/ TurnToolBlocked

----------------------------------------------------------------------------
\* router_agent.py and api/server.py: intent routing

FILES_CAP == 10

\* A question is its list of whitespace-separated words.
Questions ==
    {<<"which", "file", "mentions", "HTTP_500">>,
     <<"which", "file", "is", "it">>,
     <<"who", "captured", "rome">>,
     <<"is", "it">>,
     <<"Which", "File", "is", "it">>,
     <<"which", "files", "mention", "rome">>,
     <<"file", "which", "is", "it">>}

\* -k of the CLI and k of the HTTP request: any integer
KValues == {-1, 0, 1, 6}

Lower(w) ==
    CASE w = "HTTP_500" -> "http_500"
      [] w = "Which" -> "which"
      [] w = "File" -> "file"
      [] OTHER -> w

\* the trigger phrases of is_file_lookup, as word lists
Triggers ==
    {<<"which", "file">>, <<"what", "file">>, <<"which", "document">>,
     <<"what", "document">>, <<"which", "doc">>, <<"where", "is", "the", "file">>,
     <<"where", "can", "i", "find", "the", "file">>, <<"which", "note">>,
     <<"which", "txt">>, <<"which", "pdf">>}

\* the characters of a word
Spell(w) ==
    CASE w = "which" -> <<"w", "h", "i", "c", "h">>
      [] w = "Which" -> <<"W", "h", "i", "c", "h">>
      [] w = "what" -> <<"w", "h", "a", "t">>
      [] w = "where" -> <<"w", "h", "e", "r", "e">>
      [] w = "who" -> <<"w", "h", "o">>
      [] w = "file" -> <<"f", "i", "l", "e">>
      [] w = "File" -> <<"F", "i", "l", "e">>
      [] w = "files" -> <<"f", "i", "l", "e", "s">>
      [] w = "document" -> <<"d", "o", "c", "u", "m", "e", "n", "t">>
      [] w = "doc" -> <<"d", "o", "c">>
      [] w = "note" -> <<"n", "o", "t", "e">>
      [] w = "txt" -> <<"t", "x", "t">>
      [] w = "pdf" -> <<"p", "d", "f">>
      [] w = "is" -> <<"i", "s">>
      [] w = "it" -> <<"i", "t">>
      [] w = "i" -> <<"i">>
      [] w = "the" -> <<"t", "h", "e">>
      [] w = "can" -> <<"c", "a", "n">>
      [] w = "find" -> <<"f", "i", "n", "d">>
      [] w = "mention" -> <<"m", "e", "n", "t", "i", "o", "n">>
      [] w = "mentions" -> <<"m", "e", "n", "t", "i", "o", "n", "s">>
      [] w = "captured" -> <<"c", "a", "p", "t", "u", "r", "e", "d">>
      [] w = "rome" -> <<"r", "o", "m", "e">>
      [] w = "HTTP_500" -> <<"H", "T", "T", "P", "_", "5", "0", "0">>
      [] OTHER -> <<w>>

\* the text of a word list: its words with one blank between them
RECURSIVE Joined(_)
Joined(words) ==
    IF words = <<>> THEN <<>>
    ELSE IF Len(words) = 1 THEN Spell(words[1])
    ELSE Spell(Head(words)) \o <<" ">> \o Joined(Tail(words))

\* str.lower()
LowerChar(c) ==
    CASE c = "W" -> "w" [] c = "F" -> "f" [] c = "H" -> "h"
      [] c = "T" -> "t" [] c = "P" -> "p" [] OTHER -> c

PyLower(s) == [i \in 1..Len(s) |-> LowerChar(s[i])]

\* trigger in q
Contains(s, t) ==
    \E i \in 0..(Len(s) - Len(t)) : SubSeq(s, i + 1, i + Len(t)) = t

\* is_file_lookup without question.lower()
is_file_lookup_case_sensitive(q) ==
    \E t \in Triggers : Contains(Joined(q), Joined(t))

is_file_lookup(q) ==
    \E t \in Triggers : Contains(PyLower(Joined(q)), Joined(t))

\* words matched by BRANDY = [A-Za-z][A-Za-z0-9_-]{2,}
BrandyWords ==
    {"which", "file", "mentions", "HTTP_500", "who", "captured", "rome",
     "Which", "File", "files", "mention"}

RouterStopwords ==
    {"which", "what", "who", "where", "when", "how", "why", "file", "document",
     "doc", "contains", "contain", "mentions", "about", "answers", "answer",
     "info", "is", "are", "was", "were", "be", "to", "of", "in", "on", "for",
     "with", "and", "or", "the", "a", "an", "has", "have", "had", "talk",
     "talks", "regarding"}

\* first occurrences, in order
RECURSIVE FirstSeen(_)
FirstSeen(s) ==
    IF s = <<>> THEN <<>>
    ELSE LET init == FirstSeen(SubSeq(s, 1, Len(s) - 1))
             x == s[Len(s)]
         IN IF \E i \in 1..Len(init) : init[i] = x THEN init ELSE Append(init, x)

detect_brand_tokens(q) == FirstSeen(SelectSeq(q, LAMBDA w : w \in BrandyWords))

StrongTokens(q) ==
    SelectSeq(detect_brand_tokens(q), LAMBDA t : Lower(t) \notin RouterStopwords)

\* what the stores can answer to a router query
RouterChromaDocs == {ChromaDoc("a:2:0"), ChromaDoc("b:1:0")}
RouterChroma(ck) == ResultLists(RouterChromaDocs, Min(ck, 2))
RouterBm25 == ResultLists(Bm25RowSet, 3)
RouterFusedBm25 == ResultLists({Bm25Row("a:2:1"), Bm25Row("b:1:0")}, 2)

\* [row for row in rows if passes_before_filter(row["source"], before_dt)]
FilterRows(rows, before, mt) ==
    SelectSeq(rows, LAMBDA r : passes_before_filter(r.source, before, mt))

\* a keyword row dressed as a hit: SimpleNamespace(..., rrf_score=0.0, bm25_rank=1)
FakeHit(row) ==
    [chunk_id |-> row.chunk_id, source |-> row.source, page |-> row.page,
     text |-> row.snippet, chroma_rank |-> NoRank, bm25_rank |-> 1,
     rrf_score |-> 0]

\* by_src: insertion-ordered source -> items of that source
GroupBySource(items) ==
    LET srcs == FirstSeen([i \in 1..Len(items) |-> items[i].source])
    IN [k \in 1..Len(srcs) |->
          [src |-> srcs[k],
           hs |-> SelectSeq(items, LAMBDA x : x.source = srcs[k])]]

\* stable sort of keyed items, largest key first: sorted(..., reverse=True)
RECURSIVE InsertByKeyDesc(_, _)
InsertByKeyDesc(sorted, x) ==
    IF sorted = <<>> THEN <<x>>
    ELSE IF Head(sorted).key >= x.key
         THEN <<Head(sorted)>> \o InsertByKeyDesc(Tail(sorted), x)
         ELSE <<x>> \o sorted

RECURSIVE SortByKeyDesc(_)
SortByKeyDesc(s) ==
    IF s = <<>> THEN <<>>
    ELSE InsertByKeyDesc(SortByKeyDesc(SubSeq(s, 1, Len(s) - 1)), s[Len(s)])

\* max(hs, key=lambda x: x.rrf_score): the first item of largest score
BestByScore(hs) ==
    hs[CHOOSE i \in 1..Len(hs) :
          /\ \A j \in 1..Len(hs) : hs[j].rrf_score <= hs[i].rrf_score
          /\ \A j \in 1..(i - 1) : hs[j].rrf_score < hs[i].rrf_score]

HasBm25(hs) == \E i \in 1..Len(hs) : hs[i].bm25_rank # NoRank

\* print_file_list: one line per file, from its best hit
FileLine(group) ==
    LET best == BestByScore(group.hs)
    IN [path |-> group.src, page |-> best.page, preview |-> best.text,
        rrf |-> best.rrf_score, has_bm25 |-> HasBm25(group.hs)]

Unkeyed(s) == [i \in 1..Len(s) |-> s[i].item]

\* route_and_run, lines 246-261 and 289-298: files of keyword rows ranked by
\* hit count, at most ten
FilesByHitCount(rows) ==
    LET groups == GroupBySource([i \in 1..Len(rows) |-> FakeHit(rows[i])])
        keyed == [i \in 1..Len(groups) |->
                    [key |-> Len(groups[i].hs), item |-> FileLine(groups[i])]]
    IN PyPrefix(Unkeyed(SortByKeyDesc(keyed)), FILES_CAP)

\* route_and_run, lines 306-317: files of fused hits ranked by
\* (has_bm25, best score), at most ten
FilesByFusedScore(hs) ==
    LET groups == GroupBySource(hs)
        keyed == [i \in 1..Len(groups) |->
                    [key |-> (IF HasBm25(groups[i].hs) THEN 2 * Scale ELSE 0)
                               + BestByScore(groups[i].hs).rrf_score,
                     item |-> FileLine(groups[i])]]
    IN PyPrefix(Unkeyed(SortByKeyDesc(keyed)), FILES_CAP)

\* server.py files_from_bm25: one FileHit per source from its first row,
\* sorted by (has_bm25, -top_page) descending
files_from_bm25(rows) ==
    LET groups == GroupBySource(rows)
        keyed == [i \in 1..Len(groups) |->
                    [key |-> 0 - groups[i].hs[1].page,
                     item |-> [path |-> groups[i].src,
                               page |-> groups[i].hs[1].page,
                               preview |-> groups[i].hs[1].snippet,
                               rrf |-> 0, has_bm25 |-> TRUE]]]
    IN Unkeyed(SortByKeyDesc(keyed))

\* server.py files_from_hybrid: best fused hit per file, sorted by
\* (has_bm25, rrf) descending
files_from_hybrid(hs) ==
    LET groups == GroupBySource(hs)
        keyed == [i \in 1..Len(groups) |->
                    [key |-> (IF HasBm25(groups[i].hs) THEN 2 * Scale ELSE 0)
                               + BestByScore(groups[i].hs).rrf_score,
                     item |-> FileLine(groups[i])]]
    IN Unkeyed(SortByKeyDesc(keyed))

\* one entry of the log of engine calls: the branch of the router that issued
\* it, the function called, its query and depths, and whether it came back empty
Bm25Call(branch, query, k, rows) ==
    [branch |-> branch, fn |-> "bm25_search", query |-> query, ck |-> 0,
     bk |-> k, empty |-> rows = <<>>]

HybridCall(branch, query, ck, bk, hs) ==
    [branch |-> branch, fn |-> "retrieve_hybrid", query |-> query, ck |-> ck,
     bk |-> bk, empty |-> hs = <<>>]

NoOutput == [mode |-> "none"]
FilesOutput(files) == [mode |-> "files", files |-> files]
AnswerOutput(text, chosen) ==
    [mode |-> "answer", answer |-> text, citations |-> chosen]

RouterIdle ==
    /\ entry = "none"
    /\ question = <<>>
    /\ k_ctx = 0
    /\ rpc = "idle"
    /\ calls = <<>>
    /\ r_rows = <<>>
    /\ r_prompts = <<>>
    /\ r_output = NoOutput

\* lines 240-262 of route_and_run: filter the rows by the cutoff, then either
\* print the files ranked by hit count or fall through to the fused lookup
FastRespond(raw) ==
    LET kept == IF before_dt # NoCutoff
                THEN FilterRows(raw, before_dt, mtime) ELSE raw
    IN /\ bm25_rows' = raw
       /\ r_rows' = kept
       /\ IF kept # <<>>
          THEN /\ r_output' = FilesOutput(FilesByHitCount(kept))
               /\ rpc' = "done"
          ELSE /\ r_output' = NoOutput
               /\ rpc' = "fused"

\* route_and_run, lines 196-231 (and 240-262 when no retry follows): the
\* first keyword query of a file lookup
Route_FastQuery ==
    /\ rpc = "start" /\ entry = "cli"
    /\ is_file_lookup(question)
    /\ LET strong == StrongTokens(question)
           first_query == IF strong # <<>> THEN "brand_or" ELSE "general_or"
       IN \E rows1 \in RouterBm25 :
             /\ calls' = Append(calls, Bm25Call("fast", first_query, 100, rows1))
             /\ IF rows1 = <<>> /\ strong # <<>>
                THEN /\ rpc' = "fast_retry"
                     /\ UNCHANGED <<bm25_rows, r_rows, r_output>>
                ELSE FastRespond(rows1)
    /\ UNCHANGED <<entry, question, k_ctx, r_prompts, chroma_pairs, before_dt,
                   mtime, hits, hpc, avars, xvars>>

\* route_and_run, lines 235-262: the general tokenized query after an empty
\* brand-first query
Route_FastRetry ==
    /\ rpc = "fast_retry" /\ entry = "cli"
    /\ \E rows2 \in RouterBm25 :
          /\ calls' = Append(calls, Bm25Call("fast", "general_or", 100, rows2))
          /\ FastRespond(rows2)
    /\ UNCHANGED <<entry, question, k_ctx, r_prompts, chroma_pairs, before_dt,
                   mtime, hits, hpc, avars, xvars>>

\* ck, bk of the fused file lookup (line 268)
FusedCk == IF detect_brand_tokens(question) = <<>> THEN 2 ELSE 1
FusedBk == IF detect_brand_tokens(question) = <<>> THEN 80 ELSE 100

\* add_quotes_if_helpful leaves the query as it is when there are no tokens
QuotedQuery == IF detect_brand_tokens(question) = <<>> THEN "question" ELSE "quoted"

\* the fused lookup with a retry that does not wait for an empty result
Route_FusedFirstAlwaysRetries ==
    /\ rpc = "fused" /\ entry = "cli"
    /\ \E c1 \in RouterChroma(FusedCk), b1 \in RouterFusedBm25 :
          LET h1 == retrieve_hybrid(c1, b1, before_dt, mtime)
          IN /\ calls' = Append(calls,
                   HybridCall("fused", "question", FusedCk, FusedBk, h1))
             /\ chroma_pairs' = c1 /\ bm25_rows' = b1 /\ hits' = h1
             /\ r_output' = NoOutput
             /\ rpc' = "fused_retry"
    /\ UNCHANGED <<entry, question, k_ctx, r_rows, r_prompts, before_dt, mtime,
                   hpc, avars, xvars>>

\* route_and_run, lines 264-269 and 304-318: fused file lookup
Route_FusedFirst ==
    /\ rpc = "fused" /\ entry = "cli"
    /\ \E c1 \in RouterChroma(FusedCk), b1 \in RouterFusedBm25 :
          LET h1 == retrieve_hybrid(c1, b1, before_dt, mtime)
          IN /\ calls' = Append(calls, HybridCall("fused", "question", FusedCk, FusedBk, h1))
             /\ chroma_pairs' = c1 /\ bm25_rows' = b1 /\ hits' = h1
             /\ IF h1 # <<>>
                THEN /\ r_output' = FilesOutput(FilesByFusedScore(h1))
                     /\ rpc' = "done"
                ELSE /\ r_output' = NoOutput
                     /\ rpc' = "fused_retry"
    /\ UNCHANGED <<entry, question, k_ctx, r_rows, r_prompts, before_dt, mtime,
                   hpc, avars, xvars>>

\* route_and_run, lines 272-277 and 304-318: the retry with quoted tokens
Route_FusedRetry ==
    /\ rpc = "fused_retry" /\ entry = "cli"
    /\ \E c2 \in RouterChroma(FusedCk), b2 \in RouterFusedBm25 :
          LET h2 == retrieve_hybrid(c2, b2, before_dt, mtime)
          IN /\ calls' = Append(calls,
                   HybridCall("fused", QuotedQuery, FusedCk, Max(FusedBk, 120), h2))
             /\ chroma_pairs' = c2 /\ bm25_rows' = b2 /\ hits' = h2
             /\ IF h2 # <<>>
                THEN /\ r_output' = FilesOutput(FilesByFusedScore(h2))
                     /\ rpc' = "done"
                ELSE /\ r_output' = NoOutput
                     /\ rpc' = "fused_keyword_only"
    /\ UNCHANGED <<entry, question, k_ctx, r_rows, r_prompts, before_dt, mtime,
                   hpc, avars, xvars>>

\* route_and_run, lines 279-302: after an empty retry, a keyword-only fetch
\* with the quoted query to surface file paths, else "No results."
Route_FusedKeywordOnly ==
    /\ rpc = "fused_keyword_only" /\ entry = "cli"
    /\ \E b3 \in RouterBm25 :
          LET kept == IF before_dt # NoCutoff
                      THEN FilterRows(b3, before_dt, mtime) ELSE b3
          IN /\ calls' = Append(calls, Bm25Call("fused", QuotedQuery, 100, b3))
             /\ bm25_rows' = b3
             /\ r_rows' = kept
             /\ r_output' = IF kept # <<>>
                            THEN FilesOutput(FilesByHitCount(kept))
                            ELSE FilesOutput(<<>>)
    /\ rpc' = "done"
    /\ UNCHANGED <<entry, question, k_ctx, r_prompts, chroma_pairs, before_dt,
                   mtime, hits, hpc, avars, xvars>>

\* ck, bk of the Q&A branch (router line 323, server line 225)
AnswerCk == IF detect_brand_tokens(question) = <<>> THEN 8 ELSE 6
AnswerBk == IF detect_brand_tokens(question) = <<>> THEN 20 ELSE 50

\* lines 341-345 of route_and_run, 236-240 of route_endpoint: the context
\* block of the first k hits goes to the generative model
Generate(hs) ==
    LET built == build_context_block(hs, k_ctx)
    IN /\ r_prompts' = Append(r_prompts, built.context_block)
       /\ r_output' = AnswerOutput("generated", built.chosen)
       /\ rpc' = "done"

\* first attempt of the Q&A branch
AnswerFirst ==
    /\ rpc = "start"
    /\ ~is_file_lookup(question)
    /\ \E c1 \in RouterChroma(AnswerCk), b1 \in RouterFusedBm25 :
          LET h1 == retrieve_hybrid(c1, b1, before_dt, mtime)
          IN /\ calls' = Append(calls,
                   HybridCall("answer", "question", AnswerCk, AnswerBk, h1))
             /\ chroma_pairs' = c1 /\ bm25_rows' = b1 /\ hits' = h1
             /\ IF h1 # <<>>
                THEN Generate(h1)
                ELSE /\ rpc' = "answer_retry"
                     /\ UNCHANGED <<r_prompts, r_output>>
    /\ UNCHANGED <<entry, question, k_ctx, r_rows, before_dt, mtime, hpc, avars, xvars>>

\* the retry of the Q&A branch with quoted tokens, then the refusal
AnswerRetry ==
    /\ rpc = "answer_retry"
    /\ \E c2 \in RouterChroma(Max(AnswerCk - 2, 2)), b2 \in RouterFusedBm25 :
          LET h2 == retrieve_hybrid(c2, b2, before_dt, mtime)
          IN /\ calls' = Append(calls,
                   HybridCall("answer", QuotedQuery, Max(AnswerCk - 2, 2),
                              Max(AnswerBk, 60), h2))
             /\ chroma_pairs' = c2 /\ bm25_rows' = b2 /\ hits' = h2
             /\ IF h2 # <<>>
                THEN Generate(h2)
                ELSE /\ r_prompts' = r_prompts
                     /\ r_output' = AnswerOutput("refusal", <<>>)
                     /\ rpc' = "done"
    /\ UNCHANGED <<entry, question, k_ctx, r_rows, before_dt, mtime, hpc, avars, xvars>>

\* route_and_run, lines 320-324 and 341-345
Route_AnswerFirst == entry = "cli" /\ AnswerFirst

\* route_and_run, lines 327-345
Route_AnswerRetry == entry = "cli" /\ AnswerRetry

\* route_endpoint, lines 223-228 and 235-240
Endpoint_AnswerFirst == entry = "http" /\ AnswerFirst

\* route_endpoint, lines 228-240
Endpoint_AnswerRetry == entry = "http" /\ AnswerRetry

\* route_endpoint, lines 209-214 with brand_first_bm25: one keyword query
Endpoint_FileLookupFast ==
    /\ rpc = "start" /\ entry = "http"
    /\ is_file_lookup(question)
    /\ LET brand == detect_brand_tokens(question)
           query == IF brand # <<>> THEN "brand_or" ELSE "general_or"
       IN \E rows1 \in RouterBm25 :
             LET kept == IF before_dt # NoCutoff
                         THEN FilterRows(rows1, before_dt, mtime) ELSE rows1
             IN /\ calls' = Append(calls, Bm25Call("fast", query, 100, rows1))
                /\ bm25_rows' = rows1
                /\ r_rows' = kept
                /\ IF kept # <<>>
                   THEN /\ r_output' = FilesOutput(files_from_bm25(kept))
                        /\ rpc' = "done"
                   ELSE /\ r_output' = NoOutput
                        /\ rpc' = "fused"
    /\ UNCHANGED <<entry, question, k_ctx, r_prompts, chroma_pairs, before_dt,
                   mtime, hits, hpc, avars, xvars>>

\* route_endpoint, lines 216-221: the fused fallback, without a retry
Endpoint_FileLookupFused ==
    /\ rpc = "fused" /\ entry = "http"
    /\ \E c1 \in RouterChroma(2), b1 \in RouterFusedBm25 :
          LET h1 == retrieve_hybrid(c1, b1, before_dt, mtime)
          IN /\ calls' = Append(calls, HybridCall("fused", "question", 2, 100, h1))
             /\ chroma_pairs' = c1 /\ bm25_rows' = b1 /\ hits' = h1
             /\ r_output' = IF h1 = <<>> THEN FilesOutput(<<>>)
                            ELSE FilesOutput(files_from_hybrid(h1))
    /\ rpc' = "done"
    /\ UNCHANGED <<entry, question, k_ctx, r_rows, r_prompts, before_dt, mtime,
                   hpc, avars, xvars>>

\* the stores the next step of route_and_run opens: open_conn at lines 200
\* and 281, open_db and open_conn inside retrieve_hybrid (answer.py 230, 256)
StoresOpenedNext ==
    CASE rpc = "start" /\ is_file_lookup(question) -> {"keyword"}
      [] rpc = "start" /\ ~is_file_lookup(question) -> {"semantic", "keyword"}
      [] rpc \in {"fused", "fused_retry", "answer_retry"} -> {"semantic", "keyword"}
      [] rpc = "fused_keyword_only" -> {"keyword"}
      [] OTHER -> {}

\* an open failure answered with the empty result instead of the exception
Route_StoreOpenFailsQuietly ==
    /\ entry = "cli"
    /\ \E store \in StoresOpenedNext : open_error' = store
    /\ rpc' = "done"
    /\ r_output' = IF is_file_lookup(question) THEN FilesOutput(<<>>)
                   ELSE AnswerOutput("refusal", <<>>)
    /\ UNCHANGED <<entry, question, k_ctx, calls, r_rows, r_prompts, hvars,
                   avars, evars, ivars, svars, ovars, fts_gone, dvars>>

\* open_db or open_conn raises: nothing around the call catches it, so
\* route_and_run ends with the exception
Route_StoreOpenFails ==
    /\ entry = "cli"
    /\ \E store \in StoresOpenedNext : open_error' = store
    /\ rpc' = "raised"
    /\ UNCHANGED <<entry, question, k_ctx, calls, r_rows, r_prompts, r_output,
                   hvars, avars, evars, ivars, svars, ovars, fts_gone, dvars>>

RouterNext ==
    \/ Route_FastQuery
    \/ Route_FastRetry
    \/ Route_FusedFirst
    \/ Route_FusedRetry
    \/ Route_FusedKeywordOnly
    \/ Route_AnswerFirst
    \/ Route_AnswerRetry
    \/ Endpoint_FileLookupFast
    \/ Endpoint_FileLookupFused
    \/ Endpoint_AnswerFirst
    \/ Endpoint_AnswerRetry
    \/ Route_StoreOpenFails

----------------------------------------------------------------------------
\* The components a specification does not exercise stay in these states

NoValue == "None"       \* a parameter that was not supplied
NoError == 0            \* no HTTPException raised

EndpointIdle ==
    /\ req = NoValue
    /\ epc = "idle"
    /\ http_error = NoError

IndexIdle ==
    /\ chunks = <<>>
    /\ ipc = "idle"
    /\ ids_bm25 = <<>>
    /\ ids_chroma = <<>>

SearchIdle ==
    /\ s_query = <<>>
    /\ s_store = NoValue
    /\ spc = "idle"
    /\ s_path = <<>>
    /\ s_match = <<>>
    /\ s_rows = <<>>

ObservationIdle ==
    /\ o_in = NoValue
    /\ opc = "idle"
    /\ o_len = 0

\* every store opens and no other process touches the keyword store
WorldQuiet ==
    /\ open_error = "none"
    /\ fts_gone = {}

StoreIdle ==
    /\ db_meta = <<>>
    /\ db_fts = <<>>
    /\ db_op = NoValue

\* the components added last, at rest
OthersIdle == ObservationIdle /\ WorldQuiet /\ StoreIdle

----------------------------------------------------------------------------
\* server.py: POST /route and POST /agent

AGENT_ENDPOINT_STEPS == 4       \* run_agent(q, max_steps=4)
EndpointSteps == 2              \* turns explored of a run the endpoint starts

\* A text is a list of tokens; " " is white space.
\* str.strip(): drop leading and trailing white space
RECURSIVE LStrip(_)
LStrip(s) == IF s # <<>> /\ Head(s) = " " THEN LStrip(Tail(s)) ELSE s

RECURSIVE RStrip(_)
RStrip(s) ==
    IF s # <<>> /\ s[Len(s)] = " " THEN RStrip(SubSeq(s, 1, Len(s) - 1)) ELSE s

Strip(s) == RStrip(LStrip(s))

\* an optional request parameter: not supplied, or a text
Missing == [given |-> FALSE, text |-> <<>>]
Given(text) == [given |-> TRUE, text |-> text]

\* a `before` text "Y<sep>M<sep>D" as its tokens
DateText(sep, month, day) == <<"2024", sep, month, sep, day>>

\* datetime.strptime(before, "%Y-%m-%d") accepts the text
Strptime_ok(text) ==
    /\ Len(text) = 5
    /\ text[2] = "-" /\ text[4] = "-"
    /\ text[3] \in 1..12
    /\ text[5] \in 1..28

\* the questions, `before` texts and k a request can carry
RawQuestions ==
    {Missing, Given(<<>>), Given(<<" ", " ">>), Given(<<" ", "is", "it", " ">>),
     Given(<<"which", "file", "is", "it">>)}

RawBefores ==
    {Missing, Given(<<>>), Given(DateText("-", 1, MaxTime)),
     Given(DateText("/", 1, MaxTime)), Given(DateText("-", 13, 1))}

Request(path, q, before, k) ==
    [path |-> path, q |-> q, before |-> before, k |-> k]

Requests ==
    {Request("/route", q, Missing, 6) : q \in RawQuestions}
      \cup {Request("/agent", q, Missing, 6) :
               q \in RawQuestions \ {Given(<<"which", "file", "is", "it">>)}}
      \cup {Request(p, Given(<<" ", "is", "it", " ">>), b, 1) :
               p \in {"/route", "/agent"}, b \in RawBefores}
      \cup {Request(p, Given(<<" ", " ">>), Given(DateText("/", 1, MaxTime)), 6) :
               p \in {"/route", "/agent"}}
      \cup {Request("/route", Given(<<"which", "file", "is", "it">>), b, 6) :
               b \in RawBefores}

\* the coalescing without the strip
CoalesceQuestionNoStrip(q) == IF ~q.given THEN <<>> ELSE q.text

\* q = (q or "").strip()
CoalesceQuestion(q) == IF ~q.given THEN <<>> ELSE Strip(q.text)

\* parse_before: None for a missing or empty text, the date for a text in
\* YYYY-MM-DD form, HTTP 400 otherwise
parse_before(before) ==
    IF ~before.given \/ before.text = <<>> THEN [ok |-> TRUE, dt |-> NoCutoff]
    ELSE IF Strptime_ok(before.text) THEN [ok |-> TRUE, dt |-> before.text[5]]
    ELSE [ok |-> FALSE, dt |-> NoCutoff]

\* the store contents at the time of a request
EndpointMtimes == {[f \in Files |-> IF f = "a" THEN 1 ELSE MaxTime]}

\* route_endpoint 191-206 and agent_endpoint 253-262: coalesce the inputs,
\* reject a missing question with 422 and a bad date with 400, else start
\* the work of the endpoint
Endpoint_Receive ==
    /\ epc = "received"
    /\ LET q == CoalesceQuestion(req.q)
           parsed == parse_before(req.before)
       IN IF q = <<>>
          THEN /\ http_error' = 422
               /\ epc' = "rejected"
               /\ UNCHANGED <<avars, before_dt, entry, question, k_ctx, rpc>>
          ELSE IF ~parsed.ok
          THEN /\ http_error' = 400
               /\ epc' = "rejected"
               /\ UNCHANGED <<avars, before_dt, entry, question, k_ctx, rpc>>
          ELSE /\ http_error' = NoError
               /\ before_dt' = parsed.dt
               /\ question' = q
               /\ k_ctx' = req.k
               /\ IF req.path = "/route"
                  THEN /\ epc' = "route"
                       /\ entry' = "http"
                       /\ rpc' = "start"
                       /\ UNCHANGED avars
                  ELSE /\ epc' = "agent"
                       /\ entry' = "agent"
                       /\ rpc' = "idle"
                       /\ StartRun(Min(AGENT_ENDPOINT_STEPS, EndpointSteps))
    /\ UNCHANGED <<req, chroma_pairs, bm25_rows, mtime, hits, hpc>>
    /\ UNCHANGED <<calls, r_rows, r_prompts, r_output, ivars, svars, ovars,
                   wvars, dvars>>

\* agent_endpoint 264-277: after run_agent returned, retrieve again for the
\* question and cite the first k fused hits
Endpoint_AgentCitations ==
    /\ epc = "agent"
    /\ apc = "done"
    /\ \E c1 \in AgentChroma, b1 \in Bm25Outcomes :
          LET h1 == retrieve_hybrid(c1, b1, before_dt, mtime)
              built == build_context_block(h1, k_ctx)
          IN /\ calls' = Append(calls, HybridCall("agent", "question", 8, 40, h1))
             /\ chroma_pairs' = c1 /\ bm25_rows' = b1 /\ hits' = h1
             /\ r_output' = AnswerOutput("agent_text", built.chosen)
    /\ epc' = "done"
    /\ UNCHANGED <<req, http_error, entry, question, k_ctx, rpc, r_rows,
                   r_prompts, before_dt, mtime, hpc, avars, ivars, svars,
                   ovars, wvars, dvars>>

EndpointInit ==
    /\ req \in Requests
    /\ epc = "received"
    /\ http_error = NoError
    /\ mtime \in EndpointMtimes
    /\ chroma_pairs = <<>> /\ bm25_rows = <<>> /\ before_dt = NoCutoff
    /\ hits = <<>> /\ hpc = "idle"
    /\ AgentIdle /\ RouterIdle /\ IndexIdle /\ SearchIdle /\ OthersIdle

EndpointNext ==
    \/ Endpoint_Receive
    \/ Endpoint_FileLookupFast
    \/ Endpoint_FileLookupFused
    \/ Endpoint_AnswerFirst
    \/ Endpoint_AnswerRetry
    \/ Endpoint_AgentCitations
    \/ TurnFinalAnswer
    \/ TurnNoAction
    \/ TurnArgsNotJson
    \/ TurnUnknownTool
    \/ TurnToolRaised
    \/ TurnToolReturned
    \/ TurnToolBlocked

\* One request handled by POST /route or POST /agent
SpecEndpoint == EndpointInit /\ [][EndpointNext]_vars

----------------------------------------------------------------------------
\* index_bm25.py and index_chroma.py: assign_chunk_ids

MaxChunks == 3      \* longest chunk list explored

\* metadata values of a chunk; NoValue marks a key the loader did not set
ChunkSources == {<<"a">>, <<"unknown_source">>, <<NoValue>>}
ChunkPages == {"0", "1", NoValue}
ChunkPriorIds == {<<NoValue>>, <<"a", ":", "0", ":", "7">>}

Chunk(source, page, id) == [source |-> source, page |-> page, id |-> id]

ChunkSet ==
    {Chunk(s, p, i) : s \in ChunkSources, p \in ChunkPages, i \in ChunkPriorIds}

RECURSIVE ChunkListsOfLen(_)
ChunkListsOfLen(n) ==
    IF n = 0 THEN {<<>>}
    ELSE {Append(l, c) : l \in ChunkListsOfLen(n - 1), c \in ChunkSet}

ChunkLists == UNION {ChunkListsOfLen(n) : n \in 0..MaxChunks}

\* str() of the loop counter
NumStr(n) == IF n < 10 THEN <<"0", "1", "2", "3", "4", "5", "6", "7", "8", "9">>[n + 1]
             ELSE "many"

\* chunk.metadata.get("source", "unknown_source")
MetaSource(chunk) ==
    IF chunk.source = <<NoValue>> THEN <<"unknown_source">> ELSE chunk.source

\* chunk.metadata.get("page", 0)
MetaPage(chunk) == IF chunk.page = NoValue THEN "0" ELSE chunk.page

\* f"{source}:{page}"
PageKey(chunk) == MetaSource(chunk) \o <<":", MetaPage(chunk)>>

\* f"{page_key}:{idx_within_page}"
ChunkId(page_key, idx) == page_key \o <<":", NumStr(idx)>>

\* the loop of index_bm25.assign_chunk_ids over chunks[from..], carrying
\* last_page_key and idx_within_page
RECURSIVE AssignFrom(_, _, _, _)
AssignFrom(cs, from, last_page_key, idx_within_page) ==
    IF from > Len(cs) THEN cs
    ELSE LET page_key == PageKey(cs[from])
             idx == IF page_key = last_page_key THEN idx_within_page + 1 ELSE 0
             marked == [cs EXCEPT ![from].id = ChunkId(page_key, idx)]
         IN AssignFrom(marked, from + 1, page_key, idx)

\* the counter is never reset
RECURSIVE AssignFromNoReset(_, _, _, _)
AssignFromNoReset(cs, from, last_page_key, idx_within_page) ==
    IF from > Len(cs) THEN cs
    ELSE LET page_key == PageKey(cs[from])
             idx == IF from = 1 THEN 0 ELSE idx_within_page + 1
             marked == [cs EXCEPT ![from].id = ChunkId(page_key, idx)]
         IN AssignFromNoReset(marked, from + 1, page_key, idx)

assign_chunk_ids_no_reset(cs) == AssignFromNoReset(cs, 1, <<NoValue>>, 0)

\* index_bm25.assign_chunk_ids
assign_chunk_ids(cs) == AssignFrom(cs, 1, <<NoValue>>, 0)

\* the loop of index_chroma.assign_chunk_ids
RECURSIVE ChromaAssignFrom(_, _, _, _)
ChromaAssignFrom(cs, from, last_page_key, idx_within_page) ==
    IF from > Len(cs) THEN cs
    ELSE LET source == IF cs[from].source = <<NoValue>>
                       THEN <<"unknown_source">> ELSE cs[from].source
             page == IF cs[from].page = NoValue THEN "0" ELSE cs[from].page
             page_key == source \o <<":", page>>
             idx == IF page_key = last_page_key THEN idx_within_page + 1 ELSE 0
             marked == [cs EXCEPT ![from].id = page_key \o <<":", NumStr(idx)>>]
         IN ChromaAssignFrom(marked, from + 1, page_key, idx)

\* the vector indexer keys the run by the source alone
RECURSIVE ChromaAssignFromBySource(_, _, _, _)
ChromaAssignFromBySource(cs, from, last_source, idx_within_page) ==
    IF from > Len(cs) THEN cs
    ELSE LET source == IF cs[from].source = <<NoValue>>
                       THEN <<"unknown_source">> ELSE cs[from].source
             page == IF cs[from].page = NoValue THEN "0" ELSE cs[from].page
             page_key == source \o <<":", page>>
             idx == IF source = last_source THEN idx_within_page + 1 ELSE 0
             marked == [cs EXCEPT ![from].id = page_key \o <<":", NumStr(idx)>>]
         IN ChromaAssignFromBySource(marked, from + 1, source, idx)

chroma_assign_chunk_ids_by_source(cs) ==
    ChromaAssignFromBySource(cs, 1, <<NoValue>>, 0)

\* index_chroma.assign_chunk_ids
chroma_assign_chunk_ids(cs) == ChromaAssignFrom(cs, 1, <<NoValue>>, 0)

IdsOf(cs) == [i \in 1..Len(cs) |-> cs[i].id]

\* index_bm25.main, line 115: the keyword indexer assigns ids to its chunks
\* (in place), on a first run or on a later run over the same chunks
Index_Bm25 ==
    /\ ipc \in {"split", "chroma", "both"}
    /\ chunks' = assign_chunk_ids(chunks)
    /\ ids_bm25' = IdsOf(assign_chunk_ids(chunks))
    /\ ipc' = IF ipc = "split" THEN "bm25"
              ELSE IF ipc = "chroma" THEN "both" ELSE "rerun"
    /\ UNCHANGED <<ids_chroma, hvars, avars, rvars, evars, svars,
                   ovars, wvars, dvars>>

\* index_chroma.main, line 114: the vector indexer assigns ids to its chunks
Index_Chroma ==
    /\ ipc \in {"split", "bm25"}
    /\ chunks' = chroma_assign_chunk_ids(chunks)
    /\ ids_chroma' = IdsOf(chroma_assign_chunk_ids(chunks))
    /\ ipc' = IF ipc = "split" THEN "chroma" ELSE "both"
    /\ UNCHANGED <<ids_bm25, hvars, avars, rvars, evars, svars,
                   ovars, wvars, dvars>>

----------------------------------------------------------------------------
\* bm25_db.py: search, like_scan, sanitize_for_fts

MaxQueryLen == 3    \* longest query text explored

\* A query is a list of characters, one per class the code distinguishes:
\*   "w"  a letter or digit
\*   " "  white space
\*   "?"  punctuation sanitize_for_fts strips and like_scan does not keep
\*   "@"  punctuation sanitize_for_fts strips and like_scan keeps (also . _ -);
\*        it makes the query look like an e-mail or account search
\*   "+"  punctuation sanitize_for_fts leaves in, which FTS5 MATCH rejects
\*   the double quote, written \" inside the character class of the pattern
QueryChars == {"w", " ", "?", "@", "+", "\""}
SanitizeClass == {"?", "@", "\""}
LikeTokenClass == {"w", "@"}

RECURSIVE QueriesOfLen(_)
QueriesOfLen(n) ==
    IF n = 0 THEN {<<>>}
    ELSE {Append(q, c) : q \in QueriesOfLen(n - 1), c \in QueryChars}

Queries == UNION {QueriesOfLen(n) : n \in 0..MaxQueryLen}

\* re.sub(r"[-:;,.?!/\\(){}\[\]|\"'@*^~<>]+", " ", query): every maximal run
\* of these characters becomes one blank
RECURSIVE ReplacePunctRuns(_)
ReplacePunctRuns(q) ==
    IF q = <<>> THEN <<>>
    ELSE IF Head(q) \in SanitizeClass
    THEN IF Len(q) > 1 /\ q[2] \in SanitizeClass
         THEN ReplacePunctRuns(Tail(q))
         ELSE <<" ">> \o ReplacePunctRuns(Tail(q))
    ELSE <<Head(q)>> \o ReplacePunctRuns(Tail(q))

\* re.sub(r"\s+", " ", query)
RECURSIVE CollapseBlanks(_)
CollapseBlanks(q) ==
    IF q = <<>> THEN <<>>
    ELSE IF Head(q) = " " /\ Len(q) > 1 /\ q[2] = " "
    THEN CollapseBlanks(Tail(q))
    ELSE <<Head(q)>> \o CollapseBlanks(Tail(q))

sanitize_for_fts(query) == Strip(CollapseBlanks(ReplacePunctRuns(query)))

\* re.findall(r"[A-Za-z0-9@._-]+", query): the maximal runs, left to right;
\* cur is the run being read
RECURSIVE FindTokens(_, _)
FindTokens(q, cur) ==
    IF q = <<>> THEN (IF cur = <<>> THEN <<>> ELSE <<cur>>)
    ELSE IF Head(q) \in LikeTokenClass
    THEN FindTokens(Tail(q), Append(cur, Head(q)))
    ELSE (IF cur = <<>> THEN <<>> ELSE <<cur>>) \o FindTokens(Tail(q), <<>>)

\* [t.lower() for t in dict.fromkeys(toks) if len(t.strip()) > 1]
LikeTokens(query) ==
    SelectSeq(FirstSeen(FindTokens(query, <<>>)), LAMBDA t : Len(t) > 1)

\* re.search(r"(@|email|account|login|username)", query.lower())
LooksLikeAccount(query) == \E i \in 1..Len(query) : query[i] = "@"

\* LIMIT ?: the first k rows
Limit(rows, k) == SubSeq(rows, 1, Min(k, Len(rows)))

\* How the store answers: whether the ranked MATCH statement is accepted
\* (FTS5 may reject the query text, the build may lack bm25()), the chunks
\* MATCH finds in rank order and the chunks the LIKE scan finds
StoreFindings == {<<>>, <<"a:2:0", "b:1:0">>}

Stores ==
    [match_ok : BOOLEAN, match_ids : StoreFindings, like_ids : StoreFindings]

SearchLimits == {1, 10}

\* like_scan(conn, query, k): no statement when no token can be extracted
like_scan(query, k, store) ==
    IF LikeTokens(query) = <<>>
    THEN [path |-> <<>>, rows |-> <<>>]
    ELSE [path |-> <<"like">>,
          rows |-> [i \in 1..Len(Limit(store.like_ids, k)) |->
                       UnrankedRow(store.like_ids[i])]]

\* the ranked MATCH statement of search, rows in rank order
MatchRows(k, store) ==
    [i \in 1..Len(Limit(store.match_ids, k)) |-> RankedRow(store.match_ids[i], i)]

\* search without the fallback around the MATCH statement
search_no_fallback(query, k, store) ==
    IF sanitize_for_fts(query) = <<>>
    THEN [status |-> "returned", path |-> like_scan(query, k, store).path,
          rows |-> like_scan(query, k, store).rows]
    ELSE IF ~store.match_ok
    THEN [status |-> "raised", path |-> <<"match">>, rows |-> <<>>]
    ELSE [status |-> "returned", path |-> <<"match">>, rows |-> MatchRows(k, store)]

\* search(conn, query, k)
search(query, k, store) ==
    LET like == like_scan(query, k, store)
    IN IF sanitize_for_fts(query) = <<>>
       THEN [status |-> "returned", path |-> like.path, rows |-> like.rows]
       ELSE IF ~store.match_ok
       THEN [status |-> "returned", path |-> <<"match">> \o like.path,
             rows |-> like.rows]
       ELSE IF LooksLikeAccount(query) /\ MatchRows(k, store) = <<>>
       THEN [status |-> "returned", path |-> <<"match">> \o like.path,
             rows |-> like.rows]
       ELSE [status |-> "returned", path |-> <<"match">>,
             rows |-> MatchRows(k, store)]

\* one call of search on an open store
Search ==
    /\ spc = "call"
    /\ LET r == search(s_query.text, s_query.k, s_store)
       IN /\ spc' = r.status
          /\ s_path' = r.path
          /\ s_match' = IF \E i \in 1..Len(r.path) : r.path[i] = "match"
                        THEN sanitize_for_fts(s_query.text) ELSE <<>>
          /\ s_rows' = r.rows
    /\ UNCHANGED <<s_query, s_store, hvars, avars, rvars, evars, ivars, ovars,
                   wvars, dvars>>

----------------------------------------------------------------------------
\* llm_agent.py: the Observation entry a turn appends to the transcript

OBS_CAP == 4000         \* if len(obs_str) > 4000
PREFIX_LEN == 12        \* len("Observation:")
MARKER_LEN == 14        \* len("...(truncated)")
NUDGE_LEN == 42         \* len("invalid or missing Action/Args. Try again.")
BAD_JSON_LEN == 30      \* len("Args JSON could not be parsed.")
UNKNOWN_TOOL_LEN == 16  \* len("unknown tool ''."), the name excluded
TOOL_ERROR_LEN == 16    \* len("tool '' errored:"), name and message excluded

MaxObsSlack == 20   \* lengths explored: up to this, and this far around the cap

\* lengths of a tool name the model wrote, of an exception message and of a
\* serialized tool result
TextLengths ==
    (1..MaxObsSlack) \cup ((OBS_CAP - MaxObsSlack)..(OBS_CAP + MaxObsSlack))

\* len of the four keys of TOOLS
ToolNameLengths == {11, 12, 13, 15}

\* how a turn that appends a tool entry can end: kind, length of the tool
\* name and length n of the exception message or of json.dumps(result)
TurnOutcomes ==
    {[kind |-> k, name |-> 0, n |-> 0] : k \in {"no_action", "bad_json"}}
      \cup {[kind |-> "unknown_tool", name |-> l, n |-> 0] : l \in TextLengths}
      \cup {[kind |-> k, name |-> t, n |-> l] :
               k \in {"tool_error", "tool_ok"}, t \in ToolNameLengths,
               l \in TextLengths}

\* obs_str after lines 270-272
TruncatedLen(n) == IF n > OBS_CAP THEN OBS_CAP + MARKER_LEN ELSE n

\* len of the content of the tool entry appended at lines 239, 246, 251, 259
\* and 273
observation_len(o) ==
    CASE o.kind = "no_action" -> PREFIX_LEN + NUDGE_LEN
      [] o.kind = "bad_json" -> PREFIX_LEN + BAD_JSON_LEN
      [] o.kind = "unknown_tool" -> PREFIX_LEN + UNKNOWN_TOOL_LEN + o.name
      [] o.kind = "tool_error" -> PREFIX_LEN + TOOL_ERROR_LEN + o.name + o.n
      [] o.kind = "tool_ok" -> PREFIX_LEN + TruncatedLen(o.n)

\* the turn appends its tool entry
AppendObservation ==
    /\ opc = "turn"
    /\ o_len' = observation_len(o_in)
    /\ opc' = "appended"
    /\ UNCHANGED <<o_in, hvars, avars, rvars, evars, ivars, svars, wvars, dvars>>

----------------------------------------------------------------------------
\* bm25_db.py: add_chunks; manage_indexes.py: bm25_delete_root,
\* bm25_prune_missing

MaxBatch == 2       \* longest chunk list handed to add_chunks

\* a chunk as add_chunks reads it: metadata id (NoValue when absent) and
\* page_content; source and page are those of the id
StoreChunk(id, text) == [id |-> id, text |-> text]

\* one chunk per id, one more of a file whose text was edited since, and one
\* without id
StoreChunks ==
    {StoreChunk(id, "text") : id \in ChunkIds}
        \cup {StoreChunk("a:2:0", "edited"), StoreChunk(NoValue, "text")}

RECURSIVE BatchesOfLen(_)
BatchesOfLen(n) ==
    IF n = 0 THEN {<<>>}
    ELSE {Append(b, c) : b \in BatchesOfLen(n - 1), c \in StoreChunks}

Batches == UNION {BatchesOfLen(n) : n \in 0..MaxBatch}

MetaRow(id) == [chunk_id |-> id, source |-> SourceOf(id), page |-> PageOf(id)]

FtsRow(id, text) ==
    [chunk_id |-> id, source |-> SourceOf(id), page |-> PageOf(id), text |-> text]

HasId(rows, id) == \E i \in 1..Len(rows) : rows[i].chunk_id = id

\* add_chunks, with the FTS insert made whether or not the meta insert took
RECURSIVE add_chunks_always_fts(_, _, _, _)
add_chunks_always_fts(meta, fts, inserted, batch) ==
    IF batch = <<>> THEN [meta |-> meta, fts |-> fts, inserted |-> inserted]
    ELSE LET c == Head(batch)
         IN IF c.id = NoValue
            THEN add_chunks_always_fts(meta, fts, inserted, Tail(batch))
            ELSE add_chunks_always_fts(
                    IF HasId(meta, c.id) THEN meta ELSE Append(meta, MetaRow(c.id)),
                    Append(fts, FtsRow(c.id, c.text)),
                    inserted + 1, Tail(batch))

\* add_chunks: a chunk without id is skipped; INSERT OR IGNORE INTO
\* chunk_meta takes only an id that is not yet a key, and only then the FTS
\* row is inserted and counted
RECURSIVE add_chunks(_, _, _, _)
add_chunks(meta, fts, inserted, batch) ==
    IF batch = <<>> THEN [meta |-> meta, fts |-> fts, inserted |-> inserted]
    ELSE LET c == Head(batch)
         IN IF c.id = NoValue \/ HasId(meta, c.id)
            THEN add_chunks(meta, fts, inserted, Tail(batch))
            ELSE add_chunks(Append(meta, MetaRow(c.id)),
                            Append(fts, FtsRow(c.id, c.text)),
                            inserted + 1, Tail(batch))

\* the folder roots of the registry; source LIKE 'root%'
Roots == {"", "a", "b"}
Like(source, root) == root = "" \/ source = root

\* the sources of the rows of chunk_meta
StoredSources == {db_meta[i].source : i \in 1..Len(db_meta)}

\* DELETE FROM chunks_fts WHERE chunk_id IN (SELECT chunk_id FROM chunk_meta
\* WHERE <cond>), then DELETE FROM chunk_meta WHERE <cond>; gone is the set
\* of sources that satisfy <cond>
DeleteWhere(meta, fts, gone) ==
    LET ids == {meta[i].chunk_id : i \in {j \in 1..Len(meta) : meta[j].source \in gone}}
    IN [meta |-> SelectSeq(meta, LAMBDA m : m.source \notin gone),
        fts |-> SelectSeq(fts, LAMBDA f : f.chunk_id \notin ids)]

\* index_bm25.py main, lines 117-134, and add_chunks
Store_AddChunks ==
    \E batch \in Batches :
        LET r == add_chunks(db_meta, db_fts, 0, batch)
        IN /\ db_meta' = r.meta
           /\ db_fts' = r.fts
           /\ db_op' = [op |-> "add", batch |-> batch, returned |-> r.inserted]
           /\ UNCHANGED <<hvars, avars, rvars, evars, ivars, svars, ovars, wvars>>

\* bm25_delete_root(root)
Store_DeleteRoot ==
    \E root \in Roots :
        LET r == DeleteWhere(db_meta, db_fts, {s \in StoredSources : Like(s, root)})
        IN /\ db_meta' = r.meta
           /\ db_fts' = r.fts
           /\ db_op' = [op |-> "delete_root", batch |-> <<>>, returned |-> 0]
           /\ UNCHANGED <<hvars, avars, rvars, evars, ivars, svars, ovars, wvars>>

\* bm25_prune_missing(root): the sources under root that no longer exist on
\* disk lose their rows
Store_PruneMissing ==
    \E root \in Roots, on_disk \in SUBSET Files :
        LET r == DeleteWhere(db_meta, db_fts,
                              {s \in StoredSources : Like(s, root) /\ s \notin on_disk})
        IN /\ db_meta' = r.meta
           /\ db_fts' = r.fts
           /\ db_op' = [op |-> "prune_missing", batch |-> <<>>, returned |-> 0]
           /\ UNCHANGED <<hvars, avars, rvars, evars, ivars, svars, ovars, wvars>>

----------------------------------------------------------------------------
\* Specifications

HybridIdle ==
    /\ chroma_pairs = <<>>
    /\ bm25_rows = <<>>
    /\ before_dt = NoCutoff
    /\ mtime = [f \in Files |-> NoMtime]
    /\ hits = <<>>
    /\ hpc = "idle"

\* A stand-alone call retrieve_hybrid(query, before_dt, ck, bk): the stores'
\* answers to the query, the cutoff and the files' times are the inputs.
HybridInit ==
    /\ chroma_pairs \in ChromaResults
    /\ bm25_rows \in Bm25Results
    /\ before_dt \in Cutoffs
    /\ mtime \in Mtimes
    /\ hits = <<>>
    /\ hpc = "call"
    /\ AgentIdle
    /\ RouterIdle
    /\ EndpointIdle /\ IndexIdle /\ SearchIdle /\ OthersIdle

Retrieve ==
    /\ hpc = "call"
    /\ hits' = retrieve_hybrid(chroma_pairs, bm25_rows, before_dt, mtime)
    /\ hpc' = "returned"
    /\ UNCHANGED <<chroma_pairs, bm25_rows, before_dt, mtime>>
    /\ UNCHANGED <<avars, rvars, xvars>>

\* the same call once more: stores, cutoff and file times are untouched
RetrieveAgain ==
    /\ hpc = "returned"
    /\ hits' = retrieve_hybrid(chroma_pairs, bm25_rows, before_dt, mtime)
    /\ hpc' = "returned_again"
    /\ UNCHANGED <<chroma_pairs, bm25_rows, before_dt, mtime>>
    /\ UNCHANGED <<avars, rvars, xvars>>

HybridNext == Retrieve \/ RetrieveAgain

SpecHybrid == HybridInit /\ [][HybridNext]_vars

\* retrieve_hybrid up to line 258: both engines have answered
Retrieve_Search ==
    /\ hpc = "call"
    /\ hpc' = "searched"
    /\ UNCHANGED <<chroma_pairs, bm25_rows, before_dt, mtime, hits>>
    /\ UNCHANGED <<avars, rvars, xvars>>

\* another process deletes a row of chunks_fts (bm25_delete_root,
\* bm25_prune_missing) while retrieve_hybrid is between search and lookup
External_Delete ==
    /\ hpc = "searched"
    /\ \E id \in ChunkIds \ fts_gone : fts_gone' = fts_gone \cup {id}
    /\ UNCHANGED <<hvars, avars, rvars, evars, ivars, svars, ovars, open_error,
                   dvars>>

\* another process adds a row (add_chunks): a deleted chunk is indexed again
External_Add ==
    /\ hpc = "searched"
    /\ \E id \in fts_gone : fts_gone' = fts_gone \ {id}
    /\ UNCHANGED <<hvars, avars, rvars, evars, ivars, svars, ovars, open_error,
                   dvars>>

\* retrieve_hybrid from line 260: the meta lists, the batch lookup on the
\* store as it is now, the fusion and the sort
Retrieve_Lookup ==
    /\ hpc = "searched"
    /\ hits' = retrieve_hybrid(chroma_pairs, bm25_rows, before_dt, mtime)
    /\ hpc' = "returned"
    /\ UNCHANGED <<chroma_pairs, bm25_rows, before_dt, mtime>>
    /\ UNCHANGED <<avars, rvars, xvars>>

ConcurrentInit ==
    /\ chroma_pairs \in AgentChroma
    /\ bm25_rows \in Bm25Results
    /\ before_dt \in Cutoffs
    /\ mtime \in Mtimes
    /\ hits = <<>>
    /\ hpc = "call"
    /\ AgentIdle
    /\ RouterIdle
    /\ EndpointIdle /\ IndexIdle /\ SearchIdle /\ OthersIdle

ConcurrentNext ==
    \/ Retrieve_Search
    \/ External_Delete
    \/ External_Add
    \/ Retrieve_Lookup

\* retrieve_hybrid running while an indexing process changes the keyword store
SpecConcurrent == ConcurrentInit /\ [][ConcurrentNext]_vars

\* One run of run_agent
AgentInit ==
    /\ AgentIdle /\ HybridIdle /\ RouterIdle
    /\ EndpointIdle /\ IndexIdle /\ SearchIdle /\ OthersIdle

SpecAgent == AgentInit /\ [][AgentNext]_vars

\* One question handled by route_and_run or by POST /route
RouterInit ==
    /\ entry \in {"cli", "http"}
    /\ question \in Questions
    \* k is read by the Q&A branch only
    /\ k_ctx \in (IF is_file_lookup(question) THEN {6} ELSE KValues)
    /\ before_dt \in Cutoffs
    /\ mtime \in Mtimes
    /\ rpc = "start"
    /\ calls = <<>>
    /\ r_rows = <<>>
    /\ r_prompts = <<>>
    /\ r_output = NoOutput
    /\ chroma_pairs = <<>>
    /\ bm25_rows = <<>>
    /\ hits = <<>>
    /\ hpc = "idle"
    /\ AgentIdle
    /\ EndpointIdle /\ IndexIdle /\ SearchIdle /\ OthersIdle

SpecRouter == RouterInit /\ [][RouterNext]_vars

----------------------------------------------------------------------------
\* Specifications of the indexers and of the keyword search

IndexInit ==
    /\ chunks \in ChunkLists
    /\ ipc = "split"
    /\ ids_bm25 = <<>>
    /\ ids_chroma = <<>>
    /\ HybridIdle /\ AgentIdle /\ RouterIdle /\ EndpointIdle /\ SearchIdle
    /\ OthersIdle

IndexNext == Index_Bm25 \/ Index_Chroma

\* The same chunk list indexed by both pipelines
SpecIndex == IndexInit /\ [][IndexNext]_vars

\* FTS5 rejects a query text that still holds punctuation
SearchInit ==
    /\ s_query \in [text : Queries, k : SearchLimits]
    /\ s_store \in Stores
    /\ (\E i \in 1..Len(s_query.text) : s_query.text[i] = "+") => ~s_store.match_ok
    /\ spc = "call"
    /\ s_path = <<>>
    /\ s_match = <<>>
    /\ s_rows = <<>>
    /\ HybridIdle /\ AgentIdle /\ RouterIdle /\ EndpointIdle /\ IndexIdle
    /\ ObservationIdle /\ WorldQuiet /\ StoreIdle

SearchNext == Search

\* One call of search(conn, query, k)
SpecSearch == SearchInit /\ [][SearchNext]_vars

\* One run of run_agent in which every step that can be taken is taken
\* eventually: the run is never suspended by the scheduler
SpecAgentLive == AgentInit /\ [][AgentNext]_vars /\ WF_vars(AgentNext)

ObservationInit ==
    /\ o_in \in TurnOutcomes
    /\ opc = "turn"
    /\ o_len = 0
    /\ HybridIdle /\ AgentIdle /\ RouterIdle /\ EndpointIdle /\ IndexIdle
    /\ SearchIdle /\ WorldQuiet /\ StoreIdle

ObservationNext == AppendObservation

\* One turn of run_agent that appends a tool entry
SpecObservation == ObservationInit /\ [][ObservationNext]_vars

\* a new, empty keyword store: ensure_schema has created both tables
StoreInit ==
    /\ db_meta = <<>>
    /\ db_fts = <<>>
    /\ db_op = [op |-> "open", batch |-> <<>>, returned |-> 0]
    /\ HybridIdle /\ AgentIdle /\ RouterIdle /\ EndpointIdle /\ IndexIdle
    /\ SearchIdle /\ ObservationIdle /\ WorldQuiet

StoreNext == Store_AddChunks \/ Store_DeleteRoot \/ Store_PruneMissing

\* Any sequence of indexing and maintenance operations on the keyword store
SpecStore == StoreInit /\ [][StoreNext]_vars

----------------------------------------------------------------------------
\* Claims about retrieve_hybrid

\* 1-based position of a chunk id in an engine's raw result list, 0 if absent
ChromaPos(id) ==
    LET S == {i \in 1..Len(chroma_pairs) : chroma_pairs[i].id = id}
    IN IF S = {} THEN 0 ELSE CHOOSE i \in S : TRUE

Bm25Pos(id) ==
    LET S == {i \in 1..Len(bm25_rows) : bm25_rows[i].chunk_id = id}
    IN IF S = {} THEN 0 ELSE CHOOSE i \in S : TRUE

\* C4: every returned hit's rrf_score is the sum, over the engines whose raw
\* list holds the chunk, of 1/(60 + p), p the chunk's 1-based position in that
\* raw list (counted before the temporal filter); a chunk of both lists scores
\* the sum of both terms, strictly more than either term alone.
C4_ScoreIsSumOfReciprocalRanks ==
    hpc = "returned" =>
        \A i \in 1..Len(hits) :
            LET cp == ChromaPos(hits[i].chunk_id)
                bp == Bm25Pos(hits[i].chunk_id)
                c == IF cp = 0 THEN 0 ELSE Scale \div (60 + cp)
                b == IF bp = 0 THEN 0 ELSE Scale \div (60 + bp)
            IN /\ cp + bp > 0
               /\ hits[i].rrf_score = c + b
               /\ (cp > 0 /\ bp > 0) =>
                    /\ hits[i].rrf_score > c
                    /\ hits[i].rrf_score > b
                    /\ hits[i].rrf_score * (60 + cp) * (60 + bp)
                         = Scale * ((60 + cp) + (60 + bp))

\* a hit of both engines is returned although an earlier semantic row was
\* dropped by the cutoff, so its raw position differs from its filtered one
C4_Witness ==
    /\ hpc = "returned"
    /\ before_dt # NoCutoff
    /\ \E i \in 1..Len(hits) :
          /\ ChromaPos(hits[i].chunk_id) = 2
          /\ Bm25Pos(hits[i].chunk_id) > 0
          /\ chroma_pairs[1].id # ""
          /\ \A j \in 1..Len(hits) : hits[j].chunk_id # chroma_pairs[1].id

\* first-discovery order: semantic rows by position, then keyword-only rows
Discovery(id) ==
    IF ChromaPos(id) # 0 THEN ChromaPos(id)
    ELSE Len(chroma_pairs) + Bm25Pos(id)

\* C5: the returned list is ordered by non-increasing rrf_score, and hits of
\* equal score stand in first-discovery order (semantic list first, then
\* keyword-only chunks, each by raw list position).
C5_SortedWithDiscoveryTieBreak ==
    hpc = "returned" =>
        \A i, j \in 1..Len(hits) :
            i < j =>
                /\ hits[i].rrf_score >= hits[j].rrf_score
                /\ hits[i].rrf_score = hits[j].rrf_score =>
                       Discovery(hits[i].chunk_id) < Discovery(hits[j].chunk_id)

\* two equal-score neighbours: one found by the semantic engine, the next by
\* the keyword engine only; and a pair of both-engine hits with swapped ranks
C5_Witness ==
    /\ hpc = "returned"
    /\ Len(hits) = 3
    /\ hits[1].rrf_score = hits[2].rrf_score
    /\ hits[1].chroma_rank = 1 /\ hits[1].bm25_rank = 2
    /\ hits[2].chroma_rank = 2 /\ hits[2].bm25_rank = 1
    /\ hits[3].chroma_rank = NoRank

----------------------------------------------------------------------------
\* Claims about run_agent

AssistantEntries ==
    Cardinality({i \in 1..Len(transcript) : transcript[i].role = "assistant"})

FinalKinds == {"final_with_sources", "final_with_files", "final_text"}

\* C2: a run that uses up its budget without a FinalAnswer while a non-empty
\* hybrid context is remembered returns the answer synthesized from that
\* context, whatever the last turn was; "could not decide" is returned only
\* when no hybrid context exists.
C2_ExhaustedBudgetFallsBackToContext ==
    [][(apc = "loop" /\ apc' = "done" /\ a_result'.kind \notin FinalKinds) =>
          /\ last_context_block # <<>> =>
                /\ a_result'.kind = "fallback_answer"
                /\ a_result'.context = last_context_block
                /\ writer_prompts' = Append(writer_prompts, last_context_block)
          /\ a_result'.kind = "could_not_decide" => last_context_block' = <<>>
      ]_vars

FailureTurns == {"bad_json", "unknown_tool", "tool_error"}

FailureObservation(kind) ==
    IF kind = "bad_json" THEN "Observation:Args JSON could not be parsed"
    ELSE IF kind = "unknown_tool" THEN "Observation:unknown tool"
    ELSE "Observation:tool errored"

\* C3: a turn that fails in action dispatch (Args not JSON, unknown tool, tool
\* raised) appends the assistant reply and exactly one Observation entry
\* describing the failure; the loop goes on while budget remains, and the run
\* neither raises nor returns before the budget is used up.
C3_DispatchFailureBecomesObservation ==
    [][(step' = step + 1 /\ last_turn' \in FailureTurns) =>
          /\ Len(transcript') = Len(transcript) + 2
          /\ SubSeq(transcript', 1, Len(transcript)) = transcript
          /\ transcript'[Len(transcript) + 1].role = "assistant"
          /\ transcript'[Len(transcript) + 2] =
                Entry("tool", FailureObservation(last_turn'))
          /\ a_result'.kind # "raised"
          /\ (step' < max_steps) => (apc' = "loop" /\ a_result' = NoResult)
          /\ (apc' = "done") =>
                (step' = max_steps /\ a_result'.kind = "ran_out_of_steps")
      ]_vars

\* two kinds of failure were observed in a run that goes on looping
C3_Witness ==
    /\ apc = "loop"
    /\ last_turn = "tool_error"
    /\ \E i \in 1..Len(transcript) :
          transcript[i] = Entry("tool", FailureObservation("bad_json"))
    /\ transcript[Len(transcript)] =
          Entry("tool", FailureObservation("tool_error"))


\* positions of the Observation entries of retrieval calls that returned
RetrievalObservations ==
    {i \in 1..Len(transcript) :
        /\ transcript[i].role = "tool"
        /\ transcript[i].content = "Observation:result"
        /\ transcript[i].tool \in {"hybrid_retrieve", "bm25_search"}}

LastRetrieval ==
    transcript[CHOOSE i \in RetrievalObservations :
                  \A j \in RetrievalObservations : j <= i]

\* C11: when a FinalAnswer reply ends the run, the attached source list comes
\* from the most recent retrieval call that returned: numbered citations of
\* its chosen hits if it was hybrid_retrieve, a file list of its rows if it
\* was bm25_search, in whatever order the two tools were called.
C11_SourcesFromMostRecentRetrieval ==
    (apc = "done" /\ last_turn = "final" /\ RetrievalObservations # {}) =>
        IF LastRetrieval.tool = "hybrid_retrieve"
        THEN LastRetrieval.result.hits # <<>> =>
                /\ a_result.kind = "final_with_sources"
                /\ a_result.sources = LastRetrieval.result.hits
        ELSE LastRetrieval.result.rows # <<>> =>
                /\ a_result.kind = "final_with_files"
                /\ a_result.rows = LastRetrieval.result.rows
----------------------------------------------------------------------------
\* Claims about the router and the context assembler

PassesCutoff(src) == mtime[src] # NoMtime /\ mtime[src] < before_dt

LastCall == calls[Len(calls)]

RawIds ==
    {chroma_pairs[i].id : i \in 1..Len(chroma_pairs)}
        \cup {bm25_rows[i].chunk_id : i \in 1..Len(bm25_rows)}

\* C6: under a cutoff D every hit retrieve_hybrid returned, every keyword row
\* a file list is built from and every listed file has a readable modification
\* time strictly earlier than D; without a cutoff the filter drops nothing.
C6_CutoffFailsClosed ==
    /\ before_dt # NoCutoff =>
          /\ \A i \in 1..Len(hits) : PassesCutoff(hits[i].source)
          /\ \A i \in 1..Len(r_rows) : PassesCutoff(r_rows[i].source)
          /\ r_output.mode = "files" =>
                \A i \in 1..Len(r_output.files) :
                    PassesCutoff(r_output.files[i].path)
    /\ (before_dt = NoCutoff /\ calls # <<>>) =>
          /\ LastCall.fn = "retrieve_hybrid" =>
                \A id \in RawIds \ {""} :
                    \E i \in 1..Len(hits) : hits[i].chunk_id = id
          /\ (LastCall.fn = "bm25_search" /\ rpc # "fast_retry") =>
                r_rows = bm25_rows

\* under a cutoff a file list was produced from fused hits although one raw row
\* belongs to a file modified exactly at the cutoff and another to a file whose
\* time cannot be read
C6_Witness ==
    /\ rpc = "done"
    /\ before_dt # NoCutoff
    /\ hits # <<>>
    /\ mtime["b"] = before_dt
    /\ \E i \in 1..Len(bm25_rows) : bm25_rows[i].source = "b"
    /\ \E i \in 1..Len(chroma_pairs) : chroma_pairs[i].source = "b"
    /\ r_output.mode = "files"
    /\ r_output.files # <<>>

\* C7: for every integer limit N, build_context_block(hits, N) chooses at
\* most N hits, the chosen hits are a prefix of hits, and entry [i] of the
\* block carries source, page and chunk id of chosen[i-1].
C7_ContextHoldsAtMostNHits ==
    (rpc = "done" /\ r_output.mode = "answer" /\ r_output.answer = "generated") =>
        LET chosen == r_output.citations
            block == r_prompts[Len(r_prompts)]
        IN /\ Len(chosen) <= k_ctx
           /\ Len(chosen) <= Len(hits)
           /\ chosen = SubSeq(hits, 1, Len(chosen))
           /\ Len(block) = Len(chosen)
           /\ \A i \in 1..Len(block) :
                 /\ block[i].index = i
                 /\ block[i].source = chosen[i].source
                 /\ block[i].page = chosen[i].page
                 /\ block[i].chunk_id = chosen[i].chunk_id

\* C8: in the Q&A branch the generative model never receives an empty context
\* block, and the refusal is returned without a call and without citations.
C8_NoGenerationOnEmptyContext ==
    /\ \A i \in 1..Len(r_prompts) : r_prompts[i] # <<>>
    /\ (r_output.mode = "answer" /\ r_output.answer = "refusal") =>
          (r_prompts = <<>> /\ r_output.citations = <<>>)

BranchCalls(b) == SelectSeq(calls, LAMBDA c : c.branch = b)

\* at most two attempts, the second only after an empty first
AtMostOneRetry(cs) ==
    /\ Len(cs) <= 2
    /\ Len(cs) = 2 => cs[1].empty

RowsOf(path) == SelectSeq(r_rows, LAMBDA r : r.source = path)

\* C10: a file list of the keyword fast path names each source file once, is
\* ordered by non-increasing number of keyword hits per file, holds at most 10
\* files, and shows for each file a page and snippet of one of its own rows.
C10_FastPathFilesRankedByHitCount ==
    (rpc = "done" /\ r_output.mode = "files" /\ LastCall.branch = "fast") =>
        LET files == r_output.files
        IN /\ files # <<>>
           /\ {files[i].path : i \in 1..Len(files)}
                 = {r_rows[i].source : i \in 1..Len(r_rows)}
           /\ \A i, j \in 1..Len(files) : i # j => files[i].path # files[j].path
           /\ \A i, j \in 1..Len(files) :
                 i < j => Len(RowsOf(files[i].path)) >= Len(RowsOf(files[j].path))
           /\ Len(files) <= 10
           /\ \A i \in 1..Len(files) :
                 \E k \in 1..Len(r_rows) :
                    /\ r_rows[k].source = files[i].path
                    /\ r_rows[k].page = files[i].page
                    /\ r_rows[k].snippet = files[i].preview


\* C24: when opening the semantic or the keyword store fails in
\* route_and_run, directly or inside retrieve_hybrid, the failure reaches the
\* caller as an error: no response is produced as if it were a normal answer,
\* the open is not retried (no engine call follows) and no generative call is
\* made.
C24_StoreOpenFailurePropagates ==
    /\ [](open_error # "none" => (rpc = "raised" /\ r_output = NoOutput))
    /\ [][open_error' # "none" =>
             (calls' = calls /\ r_prompts' = r_prompts /\ r_output' = r_output)]_vars

\* the keyword store failed to open for the keyword-only fetch, after two
\* fused retrievals had come back empty
C24_Witness ==
    /\ open_error = "keyword"
    /\ rpc = "raised"
    /\ Len(calls) = 2
    /\ r_prompts = <<>>

----------------------------------------------------------------------------
\* Claims about the HTTP endpoints

\* the context block the text of an /agent answer was written from: the
\* writer's prompt of the fallback, else the block of the latest hybrid call
AgentAnswerContext ==
    IF a_result.kind = "fallback_answer" THEN a_result.context
    ELSE last_context_block

Aligned(citations, block) ==
    /\ Len(citations) = Len(block)
    /\ \A i \in 1..Len(block) :
          /\ block[i].index = i
          /\ block[i].source = citations[i].source
          /\ block[i].page = citations[i].page
          /\ block[i].chunk_id = citations[i].chunk_id

\* C12: in every answer-mode response of /route and /agent, citations[i-1]
\* is the hit rendered as "[i]" in the context block given to the model that
\* wrote the answer text: same hits, same order, same count.
C12_CitationsMatchContextBlock ==
    /\ (epc = "route" /\ rpc = "done" /\ r_output.mode = "answer"
          /\ r_prompts # <<>>) =>
             Aligned(r_output.citations, r_prompts[Len(r_prompts)])
    /\ (epc = "done" /\ entry = "agent"
          /\ a_result.kind \in {"fallback_answer", "final_with_sources"}) =>
             Aligned(r_output.citations, AgentAnswerContext)

\* the question is missing, empty or white space only
BadQuestion == ~req.q.given \/ \A i \in 1..Len(req.q.text) : req.q.text[i] = " "

\* a `before` text was supplied and is not year-month-day joined by "-"
BadBefore ==
    /\ req.before.given
    /\ req.before.text # <<>>
    /\ ~(/\ Len(req.before.text) = 5
         /\ req.before.text[2] = "-" /\ req.before.text[4] = "-"
         /\ req.before.text[3] \in 1..12
         /\ req.before.text[5] \in 1..28)

NothingTouched ==
    /\ calls = <<>>
    /\ r_prompts = <<>> /\ writer_prompts = <<>> /\ llm_calls = 0
    /\ apc = "idle" /\ rpc = "idle"
    /\ r_output = NoOutput /\ a_result = NoResult

----------------------------------------------------------------------------
\* Claims about assign_chunk_ids

\* (source, page) of the chunk at position i, with the defaults for unset keys
SourcePage(i) ==
    <<IF chunks[i].source = <<NoValue>> THEN <<"unknown_source">>
      ELSE chunks[i].source,
      IF chunks[i].page = NoValue THEN "0" ELSE chunks[i].page>>

\* number of chunks immediately before position i in an unbroken run with the
\* same (source, page)
RunBefore(i) ==
    Cardinality({j \in 1..(i - 1) :
                    \A m \in j..i : SourcePage(m) = SourcePage(i)})

ExpectedId(i) ==
    SourcePage(i)[1] \o <<":", SourcePage(i)[2], ":", NumStr(RunBefore(i))>>

\* C13: the keyword indexer's assign_chunk_ids gives the chunk at each
\* position the id source:page:j, j the number of chunks immediately before
\* it in an unbroken run with the same (source, page); the ids depend only on
\* the (source, page) sequence, so a run over chunks that already carry ids,
\* or a second run over the same chunks, yields the same ids.
C13_IdIsSourcePageRunIndex ==
    /\ [](ipc \in {"bm25", "both", "rerun"} =>
            /\ Len(ids_bm25) = Len(chunks)
            /\ \A i \in 1..Len(chunks) :
                  /\ ids_bm25[i] = ExpectedId(i)
                  /\ chunks[i].id = ids_bm25[i])
    /\ [][ipc' = "rerun" => (ids_bm25' = ids_bm25 /\ chunks' = chunks)]_vars

\* a second run over chunks that carried other ids at first: a run of two
\* chunks of one page (one without source, one named unknown_source), then a
\* change of page
C13_Witness ==
    /\ ipc = "rerun"
    /\ Len(chunks) = 3
    /\ ids_bm25 = <<<<"unknown_source", ":", "0", ":", "0">>,
                    <<"unknown_source", ":", "0", ":", "1">>,
                    <<"unknown_source", ":", "1", ":", "0">>>>
    /\ chunks[1].source = <<NoValue>> /\ chunks[2].source # <<NoValue>>

\* C14: for every ordered chunk list the keyword indexer and the vector
\* indexer assign the same id to the chunk at each position.
C14_BothIndexersAssignSameIds ==
    ipc \in {"both", "rerun"} =>
        /\ Len(ids_bm25) = Len(ids_chroma)
        /\ \A i \in 1..Len(ids_bm25) : ids_bm25[i] = ids_chroma[i]

\* both indexers ran over a list with a repeated page and a page change
\* inside one source
C14_Witness ==
    /\ ipc = "both"
    /\ Len(chunks) = 3
    /\ ids_chroma = <<<<"a", ":", "0", ":", "0">>,
                      <<"a", ":", "1", ":", "0">>,
                      <<"a", ":", "1", ":", "1">>>>
    /\ ids_bm25 = ids_chroma

----------------------------------------------------------------------------
\* Claims about search

\* nothing of the query survives the sanitizer: only blanks and stripped
\* punctuation
SanitizedEmpty == \A i \in 1..Len(s_query.text) : s_query.text[i] \in {" ", "?", "@", "\""}

RowKeys == {"chunk_id", "source", "page", "snippet", "rank"}

\* C16: on an open store search never raises for a query-syntax or ranking
\* failure; when the sanitized query is empty or the ranked MATCH statement
\* is rejected it returns the rows of the unranked substring scan (rank None,
\* possibly none at all), and every row of either path has the same keys.
C16_SearchFallsBackToSubstringScan ==
    /\ spc # "raised"
    /\ spc = "returned" =>
          /\ \A i \in 1..Len(s_rows) : DOMAIN s_rows[i] = RowKeys
          /\ (SanitizedEmpty \/ ~s_store.match_ok) =>
                /\ \A i \in 1..Len(s_rows) : s_rows[i].rank = NoRank
                /\ Len(s_rows) <= Len(s_store.like_ids)
                /\ \A i \in 1..Len(s_rows) :
                      s_rows[i].chunk_id = s_store.like_ids[i]
                /\ s_rows # <<>> => s_path[Len(s_path)] = "like"
                /\ SanitizedEmpty => "match" \notin {s_path[i] : i \in 1..Len(s_path)}

\* MATCH rejected a query that survived the sanitizer and the substring scan
\* supplied the rows
C16_Witness ==
    /\ spc = "returned"
    /\ ~SanitizedEmpty
    /\ ~s_store.match_ok
    /\ s_path = <<"match", "like">>
    /\ Len(s_rows) = 2
    /\ s_rows[1].rank = NoRank

\* the query is a token between double quotes, as the file-lookup fast path
\* and add_quotes_if_helpful build it
QuotedToken ==
    /\ Len(s_query.text) = 3
    /\ s_query.text[1] = "\""
    /\ s_query.text[2] = "w"
    /\ s_query.text[3] = "\""

\* C26: sanitize_for_fts keeps double quotes while it strips the other
\* punctuation: a query of quoted tokens reaches the MATCH expression of
\* search with its tokens still quoted, and so differs from the sanitized
\* form of the same query written without quotes.
C26_QuotesReachMatch ==
    (spc = "returned" /\ QuotedToken) =>
        /\ s_match = <<"\"", "w", "\"">>
        /\ s_match # sanitize_for_fts(<<"w">>)

----------------------------------------------------------------------------
\* Claims about the fused hit list

\* ids the engines returned that are usable: not empty, and of a file that
\* passes the cutoff when one is set
ChromaUsable ==
    {chroma_pairs[i].id : i \in {j \in 1..Len(chroma_pairs) :
        /\ chroma_pairs[j].id # ""
        /\ (before_dt = NoCutoff \/ PassesCutoff(chroma_pairs[j].source))}}

Bm25Usable ==
    {bm25_rows[i].chunk_id : i \in {j \in 1..Len(bm25_rows) :
        /\ bm25_rows[j].chunk_id # ""
        /\ (before_dt = NoCutoff \/ PassesCutoff(bm25_rows[j].source))}}

HitIds == {hits[i].chunk_id : i \in 1..Len(hits)}

\* C17: retrieve_hybrid returns exactly one hit per distinct usable chunk id:
\* no two hits share a chunk_id, no hit has an empty chunk_id, and a chunk
\* both engines returned is one hit that carries both ranks.
C17_OneHitPerChunkId ==
    hpc = "returned" =>
        /\ \A i, j \in 1..Len(hits) : i # j => hits[i].chunk_id # hits[j].chunk_id
        /\ "" \notin HitIds
        /\ HitIds = ChromaUsable \cup Bm25Usable
        /\ \A i \in 1..Len(hits) :
              /\ hits[i].chunk_id \in ChromaUsable <=> hits[i].chroma_rank # NoRank
              /\ hits[i].chunk_id \in Bm25Usable <=> hits[i].bm25_rank # NoRank

\* both engines returned the same chunk, the semantic engine also returned a
\* document without an id, and the result holds the shared chunk once
C17_Witness ==
    /\ hpc = "returned"
    /\ \E i \in 1..Len(chroma_pairs) : chroma_pairs[i].id = ""
    /\ ChromaUsable \cap Bm25Usable # {}
    /\ Len(hits) = 2
    /\ \E i \in 1..Len(hits) :
          hits[i].chroma_rank # NoRank /\ hits[i].bm25_rank # NoRank

FusedKeywordFirst ==
    FuseList(FuseList(<<>>, Bm25MetaFilled(bm25_rows, chroma_pairs, before_dt, mtime),
                      "bm25"),
             ChromaMetaList(chroma_pairs, before_dt, mtime), "chroma")

\* what the claim compares of a hit
Essence(h) ==
    [chunk_id |-> h.chunk_id, chroma_rank |-> h.chroma_rank,
     bm25_rank |-> h.bm25_rank, rrf_score |-> h.rrf_score]

EssenceSet(s) == {Essence(s[i]) : i \in 1..Len(s)}

\* positions i < j of s hold hits whose order is reversed in t
Reordered(s, t, i, j) ==
    \E a, b \in 1..Len(t) :
        /\ t[a].chunk_id = s[j].chunk_id
        /\ t[b].chunk_id = s[i].chunk_id
        /\ a < b

\* C20: fusion is commutative in the engine order: accumulating the keyword
\* list first yields the same hits, each with the same chunk_id, semantic
\* rank, keyword rank and rrf_score; only hits of equal score may change
\* their relative order.
C20_FusionCommutesInEngineOrder ==
    hpc = "returned" =>
        LET other == SortedByScoreDesc(FusedKeywordFirst)
        IN /\ Len(other) = Len(hits)
           /\ EssenceSet(other) = EssenceSet(hits)
           /\ \A i, j \in 1..Len(hits) :
                 (i < j /\ Reordered(hits, other, i, j)) =>
                     hits[i].rrf_score = hits[j].rrf_score

\* both orders were fused from lists that share a chunk at different ranks,
\* and two hits of equal score come out in the other order
C20_Witness ==
    /\ hpc = "returned"
    /\ \E i \in 1..Len(hits) :
          /\ hits[i].chroma_rank # NoRank /\ hits[i].bm25_rank # NoRank
          /\ hits[i].chroma_rank # hits[i].bm25_rank
    /\ \E i, j \in 1..Len(hits) :
          i < j /\ Reordered(hits, SortedByScoreDesc(FusedKeywordFirst), i, j)

----------------------------------------------------------------------------
\* Claims about the router's mode

\* the questions whose lower-cased text holds a trigger phrase, read off the
\* phrase list: "which file" in three of them, in one as part of "which files"
TriggerQuestions ==
    {<<"which", "file", "mentions", "HTTP_500">>,
     <<"which", "file", "is", "it">>,
     <<"Which", "File", "is", "it">>,
     <<"which", "files", "mention", "rome">>}

\* C18: the mode of the router's output is decided by intent classification
\* alone: route_and_run and POST /route end in mode "files" exactly when the
\* lower-cased question contains a trigger phrase and in mode "answer"
\* otherwise, the empty-result and the refusal paths included.
C18_ModeFollowsIntentAlone ==
    rpc = "done" =>
        /\ r_output.mode \in {"files", "answer"}
        /\ r_output.mode = "files" <=> question \in TriggerQuestions

\* a capitalised file question that found nothing ends in mode files
C18_Witness ==
    /\ rpc = "done"
    /\ question = <<"Which", "File", "is", "it">>
    /\ r_output = FilesOutput(<<>>)

\* a question without a trigger phrase ends in the refusal, mode answer
C18_WitnessRefusal ==
    /\ rpc = "done"
    /\ question = <<"file", "which", "is", "it">>
    /\ r_output = AnswerOutput("refusal", <<>>)

----------------------------------------------------------------------------
\* Further claims about run_agent

RememberedUnchanged ==
    UNCHANGED <<last_context_block, last_chosen_hits, last_bm25_rows>>

\* C21: a reply that matches both FinalAnswer and a well-formed Action/Args
\* pair is handled as a final answer: no tool runs in that turn, nothing
\* follows the assistant entry in the transcript, and the run terminates with
\* a response built from the FinalAnswer text.
C21_FinalAnswerWinsOverAction ==
    [][(step' = step + 1
          /\ \E i \in (Len(transcript) + 1)..Len(transcript') :
                transcript'[i] = Entry("assistant", "final+action")) =>
          /\ transcript' = Append(transcript, Entry("assistant", "final+action"))
          /\ RememberedUnchanged
          /\ writer_prompts' = writer_prompts
          /\ apc' = "done"
          /\ a_result'.kind \in {"final_with_sources", "final_text"}
          /\ a_result'.text = "final_text"
      ]_vars

\* the same without the last clause: final-answer wins over the action
C21_NoToolRunsOnFinalAnswer ==
    [][(step' = step + 1
          /\ \E i \in (Len(transcript) + 1)..Len(transcript') :
                transcript'[i] = Entry("assistant", "final+action")) =>
          /\ transcript' = Append(transcript, Entry("assistant", "final+action"))
          /\ RememberedUnchanged
          /\ writer_prompts' = writer_prompts
          /\ apc' = "done"
      ]_vars

\* C27: the remembered retrieval state changes only on a retrieval call that
\* returned: a turn with an unparseable reply, malformed Args, an unknown
\* tool, a tool that raised, or a chroma_search or final_answer call that
\* returned leaves last_context_block, last_chosen_hits and last_bm25_rows as
\* they were; hybrid_retrieve sets only the first two, bm25_search only the
\* third.
C27_RememberedStateFrame ==
    [][step' = step + 1 =>
          /\ last_turn' \in {"no_action", "bad_json", "unknown_tool", "tool_error"}
                => RememberedUnchanged
          /\ last_turn' = "tool_ok" =>
                LET e == transcript'[Len(transcript')]
                IN /\ e.tool \in {"chroma_search", "final_answer"}
                         => RememberedUnchanged
                   /\ e.tool = "hybrid_retrieve" =>
                         /\ last_bm25_rows' = last_bm25_rows
                         /\ last_context_block' = e.result.context_block
                         /\ last_chosen_hits' = e.result.hits
                   /\ e.tool = "bm25_search" =>
                         /\ last_context_block' = last_context_block
                         /\ last_chosen_hits' = last_chosen_hits
                         /\ last_bm25_rows' = e.result.rows
      ]_vars

\* a tool raised after both retrieval tools had returned something, and all
\* of it is still remembered
C27_Witness ==
    /\ last_turn = "tool_error"
    /\ last_context_block # <<>>
    /\ last_chosen_hits # <<>>
    /\ last_bm25_rows # <<>>

\* C28: a run that terminates on a FinalAnswer reply returns a response that
\* contains the final-answer text; a remembered source list is added to the
\* text and never replaces it.
C28_FinalTextAlwaysReturned ==
    (apc = "done" /\ last_turn = "final") =>
        /\ a_result.kind \in {"final_with_sources", "final_text"}
        /\ a_result.text = "final_text"

\* C29: run_agent returns a response and never raises while it formats the
\* final response, whatever the replies and tool results were, keyword rows
\* of the unranked substring scan and empty hybrid results included.
C29_FinalFormattingNeverRaises ==
    apc = "done" => a_result.kind # "raised"

\* C25: a tool call that blocks is cut off by a timeout and observed as a
\* recoverable failure, so the run reaches a terminal state within its step
\* budget even when the tool never returns.
C25_BlockedToolIsCutOff ==
    (apc = "in_tool") ~> (apc = "done")

\* C22: every tool entry run_agent appends, for a tool result as for a
\* failure (unknown tool name, tool exception message), is at most the
\* 'Observation:' prefix, 4000 characters of payload and the truncation
\* marker long.
C22_ObservationLengthCapped ==
    opc = "appended" => o_len <= PREFIX_LEN + OBS_CAP + MARKER_LEN

----------------------------------------------------------------------------
\* Claims about retrieval beside a running indexer

ChromaIds == {chroma_pairs[i].id : i \in 1..Len(chroma_pairs)}

\* C23: rows added to or deleted from the keyword store between the keyword
\* search and the batch text lookup do not make retrieve_hybrid fail: it
\* returns its ranked list, every hit has a chunk id an engine returned in
\* this call, and a keyword-only hit whose row vanished before the lookup is
\* returned with empty text.
C23_ToleratesConcurrentIndexing ==
    /\ hpc # "raised"
    /\ hpc = "returned" =>
          /\ HitIds = ChromaUsable \cup Bm25Usable
          /\ HitIds \subseteq RawIds
          /\ \A i, j \in 1..Len(hits) :
                i < j => hits[i].rrf_score >= hits[j].rrf_score
          /\ \A i \in 1..Len(hits) :
                hits[i].chunk_id \notin ChromaIds =>
                    hits[i].text = IF hits[i].chunk_id \in fts_gone
                                   THEN "" ELSE TextOf(hits[i].chunk_id)

\* of two keyword-only hits one lost its row before the lookup and has no
\* text, the other still has its text
C23_Witness ==
    /\ hpc = "returned"
    /\ \E i, j \in 1..Len(hits) :
          /\ hits[i].chunk_id \in fts_gone /\ hits[i].text = ""
          /\ hits[i].chroma_rank = NoRank
          /\ hits[j].chunk_id \notin fts_gone /\ hits[j].text # ""
          /\ hits[j].chroma_rank = NoRank

----------------------------------------------------------------------------
\* Claims about the keyword store

IdsIn(rows) == {rows[i].chunk_id : i \in 1..Len(rows)}

NoDuplicateIds(rows) ==
    \A i, j \in 1..Len(rows) : i # j => rows[i].chunk_id # rows[j].chunk_id

\* ids of a batch that the store did not hold
FreshIds(batch, held) ==
    {batch[i].id : i \in 1..Len(batch)} \ (held \cup {NoValue})

\* C30: after any sequence of add_chunks, bm25_delete_root and
\* bm25_prune_missing each chunk_id is stored at most once in chunk_meta and
\* at most once in chunks_fts and both tables hold the same ids; add_chunks
\* inserts nothing for an id that is already present or repeated in its
\* batch, leaves the stored rows as they are and does not count it.
C30_StoreTablesAgree ==
    /\ [](/\ NoDuplicateIds(db_meta)
          /\ NoDuplicateIds(db_fts)
          /\ IdsIn(db_meta) = IdsIn(db_fts))
    /\ [][db_op'.op = "add" =>
             /\ SubSeq(db_meta', 1, Len(db_meta)) = db_meta
             /\ SubSeq(db_fts', 1, Len(db_fts)) = db_fts
             /\ db_op'.returned = Cardinality(FreshIds(db_op'.batch, IdsIn(db_meta)))
             /\ Len(db_fts') = Len(db_fts) + db_op'.returned
             /\ Len(db_meta') = Len(db_meta) + db_op'.returned]_vars

\* a batch that gives one new id twice, with two texts, was added to a store
\* holding one row: one row inserted with the first text, one counted
C30_Witness ==
    /\ db_op.op = "add"
    /\ Len(db_op.batch) = 2
    /\ db_op.batch[1].id = db_op.batch[2].id
    /\ db_op.batch[1].text # db_op.batch[2].text
    /\ db_op.returned = 1
    /\ Len(db_fts) = 2
    /\ db_fts[2].text = db_op.batch[1].text


====
